---- MODULE Spec2Model ----
(***************************************************************************)
(* Model of the EDAcation project model (src/project/project.ts), its      *)
(* configuration schema (configuration.ts) and the value-list resolver.    *)
(*                                                                         *)
(* A Project object is the tuple of its private fields.  Every public      *)
(* method is an operator from a project record to a project record, in     *)
(* the order of the statements of the method; a thrown Error is the field  *)
(* err, which makes every later statement of the call a no-op.  An action  *)
(* is one top-level call made by a client of the class.                    *)
(***************************************************************************)
EXTENDS Integers, Sequences, FiniteSets, TLC

VARIABLES
    inputFiles,     \* Project.inputFiles: sequence of [path, type]
    outputFiles,    \* Project.outputFiles: sequence of [path, targetId, stale]
    configuration,  \* Project.configuration: [defaults, targets]
    batchedEvents,  \* Project.batchedEvents: set of ProjectEvent
    batchCounter,   \* Project.batchCounter
    call,           \* the last top-level call: what it was and what it delivered
    cli             \* the command line process that executes a generated pipeline

vars == <<inputFiles, outputFiles, configuration, batchedEvents, batchCounter, call, cli>>

----------------------------------------------------------------------------
(* Bounds and value pools *)

MaxTargets == 2
MaxBatchCounter == 1
MaxFilesPerCall == 2

InputPaths == {"a.v", "tb.v"}
OutputPaths == {"out.json", "out.asc"}
TargetIds == {"default", "target1"}
FileTypes == {"design", "testbench"}

\* JavaScript null / undefined in a string-typed position
NULL == "null"
UNDEFINED == "undefined"
NoErr == "none"
\* a key that an object does not have (UNDEFINED: a key whose value is undefined)
ABSENT == "absent"

\* an optional object is a sequence of length 0 (undefined) or 1
None == <<>>
Some(x) == <<x>>

SeqsUpTo(S, n) == UNION {[1..k -> S] : k \in 0..n}
Perms(n) == {f \in [1..n -> 1..n] : \A i, j \in 1..n : i # j => f[i] # f[j]}

RECURSIVE SelectSeq2(_, _)
\* Array.prototype.filter with the predicate given as the set of kept elements
SelectSeq2(s, keep) ==
    IF s = <<>> THEN <<>>
    ELSE IF Head(s) \in keep THEN <<Head(s)>> \o SelectSeq2(Tail(s), keep)
    ELSE SelectSeq2(Tail(s), keep)

----------------------------------------------------------------------------
(* The project record the method operators work on *)

This ==
    [inputFiles |-> inputFiles, outputFiles |-> outputFiles,
     configuration |-> configuration,
     batchedEvents |-> batchedEvents, batchCounter |-> batchCounter,
     eventCallback |-> TRUE,
     delivered |-> <<>>, raised |-> {}, err |-> NoErr, result |-> <<>>]

Throw(p, e) == [p EXCEPT !.err = e]

----------------------------------------------------------------------------
(* Event batching: Project.emitEvents, Project.batchEvents, the triggers *)

\* what the event callback observes when it is invoked
Notification(p, events) ==
    [events |-> events, inputFiles |-> p.inputFiles,
     outputFiles |-> p.outputFiles, configuration |-> p.configuration]

\* mutant: emitEvents without the batching test
emitEvents_unbatched(p, events) ==
    LET batched == p.batchedEvents \cup events
        p1 == [p EXCEPT !.batchedEvents = batched, !.raised = @ \cup events]
    IN  IF batched = {} THEN p1
        ELSE [p1 EXCEPT
                !.delivered = IF p1.eventCallback
                              THEN Append(@, Notification(p1, batched)) ELSE @,
                !.batchedEvents = {}]

emitEvents(p, events) ==
    LET batched == p.batchedEvents \cup events
        p1 == [p EXCEPT !.batchedEvents = batched, !.raised = @ \cup events]
    IN  IF batched = {} THEN p1
        ELSE IF p1.batchCounter > 0 THEN p1
        ELSE [p1 EXCEPT
                !.delivered = IF p1.eventCallback
                              THEN Append(@, Notification(p1, batched)) ELSE @,
                !.batchedEvents = {}]

\* batchEvents up to and including the call of func: batchCounter += 1
batchEventsEnter(p) == [p EXCEPT !.batchCounter = @ + 1]

\* batchEvents after func returned; when func threw, nothing of it runs
batchEventsLeave(p, events) ==
    IF p.err # NoErr THEN p
    ELSE emitEvents([p EXCEPT !.batchCounter = @ - 1], events)

triggerInputFilesChanged(p) == emitEvents(p, {"inputFiles"})
triggerOutputFilesChanged(p) == emitEvents(p, {"outputFiles"})
triggerConfigurationChanged(p) == emitEvents(p, {"configuration"})

----------------------------------------------------------------------------
(* ProjectInputFile and ProjectOutputFile *)

\* persisted data is either a bare path string or a structured object
LegacyString(path) == [typeof |-> "string", value |-> path]
InputFileState(path, type) == [typeof |-> "object", path |-> path, type |-> type]
OutputFileState(path, targetId, stale) ==
    [typeof |-> "object", path |-> path, targetId |-> targetId, stale |-> stale]

ProjectInputFile_deserialize(data) ==
    LET d == IF data.typeof = "string"
             THEN InputFileState(data.value, "design") ELSE data
    IN  [path |-> d.path, type |-> d.type]

ProjectInputFile_serialize(file) == InputFileState(file.path, file.type)

\* mutant: a legacy output path is loaded as a stale file
ProjectOutputFile_deserialize_stale(data) ==
    LET d == IF data.typeof = "string"
             THEN OutputFileState(data.value, NULL, TRUE) ELSE data
    IN  [path |-> d.path, targetId |-> d.targetId, stale |-> d.stale]

ProjectOutputFile_deserialize(data) ==
    LET d == IF data.typeof = "string"
             THEN OutputFileState(data.value, NULL, FALSE) ELSE data
    IN  [path |-> d.path, targetId |-> d.targetId, stale |-> d.stale]

ProjectOutputFile_serialize(file) ==
    OutputFileState(file.path, file.targetId, file.stale)

\* Array.prototype.find: index of the first match, 0 when there is none
IndexOfPath(files, filePath) ==
    IF \E i \in 1..Len(files) : files[i].path = filePath
    THEN CHOOSE i \in 1..Len(files) :
            /\ files[i].path = filePath
            /\ \A j \in 1..(i - 1) : files[j].path # filePath
    ELSE 0

IndexOfTarget(targets, id) ==
    IF \E i \in 1..Len(targets) : targets[i].id = id
    THEN CHOOSE i \in 1..Len(targets) :
            /\ targets[i].id = id
            /\ \A j \in 1..(i - 1) : targets[j].id # id
    ELSE 0

hasInputFile(p, filePath) == IndexOfPath(p.inputFiles, filePath) # 0
hasTarget(p, id) == \E i \in 1..Len(p.configuration.targets) : p.configuration.targets[i].id = id

\* ProjectInputFile.type setter on the i-th input file
setType(p, i, type) ==
    IF p.inputFiles[i].type = type THEN p
    ELSE triggerInputFilesChanged([p EXCEPT !.inputFiles[i].type = type])

\* ProjectOutputFile.targetId setter on the i-th output file
setTargetId(p, i, id) ==
    IF id # NULL /\ ~hasTarget(p, id) THEN Throw(p, "InvalidTargetId")
    ELSE IF p.outputFiles[i].targetId = id THEN p
    ELSE triggerOutputFilesChanged([p EXCEPT !.outputFiles[i].targetId = id])

\* ProjectOutputFile.target getter: is the target of this file null?
targetIsNull(p, targetId) ==
    targetId = NULL \/ targetId = "" \/ ~hasTarget(p, targetId)

\* ProjectOutputFile.stale setter on the i-th output file
setStale(p, i, isStale) ==
    IF p.outputFiles[i].stale = isStale THEN p
    ELSE triggerOutputFilesChanged([p EXCEPT !.outputFiles[i].stale = isStale])

\* Array.prototype.sort with the comparator (a, b) => a < b ? -1 : 1 on file
\* objects.  Both operands convert to the same string, so the comparator
\* answers 1 for every pair: it is not a consistent comparator and the order
\* of the result is implementation-defined.  perm is the order the engine
\* produces.
sort(files, perm) == [i \in 1..Len(files) |-> files[perm[i]]]

----------------------------------------------------------------------------
(* Configuration schema (configuration.ts).  A target holds its id, the    *)
(* value-list block yosys.commands, and the scalar options                 *)
(* yosys.options.topLevelModule and iverilog.options.testbenchFile.  A     *)
(* boolean field that may be absent is "true", "false" or UNDEFINED.       *)

RawValueList(useGenerated, values) ==
    [useGenerated |-> useGenerated, values |-> values]
RawValueListTarget(useGenerated, useDefault, values) ==
    [useGenerated |-> useGenerated, useDefault |-> useDefault, values |-> values]

\* z.object({useGenerated: boolean.optional().default(true),
\*           values: array(string).optional().default([])})
schemaValueList(raw) ==
    [useGenerated |-> IF raw.useGenerated = UNDEFINED THEN "true" ELSE raw.useGenerated,
     values |-> IF raw.values = None THEN Some(<<>>) ELSE raw.values]

\* schemaValueList.extend({useDefault: boolean.optional().default(true)})
schemaValueListTarget(raw) ==
    [useGenerated |-> schemaValueList(raw).useGenerated,
     useDefault |-> IF raw.useDefault = UNDEFINED THEN "true" ELSE raw.useDefault,
     values |-> schemaValueList(raw).values]

Target(id, commands, topLevelModule, testbenchFile) ==
    [id |-> id, commands |-> commands,
     topLevelModule |-> topLevelModule, testbenchFile |-> testbenchFile]

schemaTarget(raw) ==
    [raw EXCEPT !.commands = IF @ = None THEN None ELSE Some(schemaValueListTarget(@[1]))]

schemaProjectConfiguration(raw) ==
    [raw EXCEPT
        !.defaults = IF @ = None THEN None ELSE Some(schemaValueList(@[1])),
        !.targets = [i \in 1..Len(@) |-> schemaTarget(@[i])]]

DEFAULT_TARGET == Target("", None, UNDEFINED, UNDEFINED)

DEFAULT_CONFIGURATION ==
    [defaults |-> None, targets |-> <<Target("default", None, UNDEFINED, UNDEFINED)>>]

----------------------------------------------------------------------------
(* ProjectTarget: a handle on the i-th element of configuration.targets *)

\* ProjectTarget.id setter
setId(p, i, newId) ==
    IF newId = p.configuration.targets[i].id THEN p
    ELSE IF hasTarget(p, newId) THEN Throw(p, "TargetExists")
    ELSE triggerConfigurationChanged([p EXCEPT !.configuration.targets[i].id = newId])

\* Object.assign(this._data, structuredClone(updates)): every key of updates is
\* written; a key whose value is UNDEFINED stands for a key that is absent
ObjectAssign(data, updates) ==
    [key \in DOMAIN data |->
        IF key \in DOMAIN updates /\ updates[key] # UNDEFINED THEN updates[key]
        ELSE data[key]]

\* ProjectTarget.update; updates is a Partial<TargetConfiguration> (the key id is
\* always given: UNDEFINED when it is absent)
update(p, i, updates) ==
    LET this == p.configuration.targets[i]
        checked == updates.id # UNDEFINED /\ updates.id # "" /\ updates.id # this.id
    IN  IF checked /\ hasTarget(p, updates.id) THEN Throw(p, "TargetExists")
        ELSE triggerConfigurationChanged(
                [p EXCEPT !.configuration.targets[i] = ObjectAssign(@, updates)])

\* the object setConfig creates for a missing intermediate key
EmptyObject == RawValueListTarget(UNDEFINED, UNDEFINED, None)

\* ProjectTarget.setConfig for a path [key], a path [tool, 'options', key] (the
\* options of the tools are fields of the target record) and the paths
\* ['yosys', 'commands', key]
setConfig(p, i, path, value) ==
    IF path = <<>> THEN Throw(p, "EmptyPath")
    ELSE
    LET this == p.configuration.targets[i]
        last == path[Len(path)]
        cursor == IF this.commands = None THEN EmptyObject ELSE this.commands[1]
        vivified == [p EXCEPT !.configuration.targets[i].commands = Some(cursor)]
    IN  IF Len(path) = 1
        THEN IF this[last] = value \/ (this[last] = ABSENT /\ value = UNDEFINED) THEN p
             ELSE triggerConfigurationChanged(
                    [p EXCEPT !.configuration.targets[i][last] = value])
        ELSE IF path[2] = "options"
        THEN IF this[last] = value \/ (this[last] = ABSENT /\ value = UNDEFINED) THEN p
             ELSE triggerConfigurationChanged(
                    [p EXCEPT !.configuration.targets[i][last] = value])
        ELSE
        LET stored == IF last = "values" THEN Some(value) ELSE value
        IN  IF cursor[last] = stored THEN vivified
            ELSE triggerConfigurationChanged(
                    [p EXCEPT !.configuration.targets[i].commands =
                        Some([cursor EXCEPT ![last] = stored])])

----------------------------------------------------------------------------
(* Override resolver for value lists (target.ts) *)

RECURSIVE dropFalsy(_)
\* filter((v) => !!v): the empty string is the only falsy string
dropFalsy(values) ==
    IF values = <<>> THEN <<>>
    ELSE IF Head(values) = "" THEN dropFalsy(Tail(values))
    ELSE <<Head(values)>> \o dropFalsy(Tail(values))

defaultParse(values) == values

\* the values of a block; an absent values key degrades to the empty list
valuesOf(block) == IF block.values = None THEN <<>> ELSE block.values[1]

\* step 1: the target-level value if present, else the default-level value, else true
resolveUseGenerated(defaultConfig, targetConfig) ==
    IF targetConfig # None /\ targetConfig[1].useGenerated # UNDEFINED
    THEN targetConfig[1].useGenerated = "true"
    ELSE IF defaultConfig # None /\ defaultConfig[1].useGenerated # UNDEFINED
    THEN defaultConfig[1].useGenerated = "true"
    ELSE TRUE

\* step 2: target-level only, default true
resolveUseDefault(targetConfig) ==
    IF targetConfig # None /\ targetConfig[1].useDefault # UNDEFINED
    THEN targetConfig[1].useDefault = "true"
    ELSE TRUE

\* getCombined(configuration, targetId, 'yosys', 'commands', generated)
getCombined(config, targetId, generated) ==
    LET defaultConfig == config.defaults
        targetConfig == config.targets[IndexOfTarget(config.targets, targetId)].commands
    IN  dropFalsy(
            (IF resolveUseGenerated(defaultConfig, targetConfig) THEN generated ELSE <<>>)
            \o (IF resolveUseDefault(targetConfig) /\ defaultConfig # None
                THEN defaultParse(valuesOf(defaultConfig[1])) ELSE <<>>)
            \o (IF targetConfig # None
                THEN defaultParse(valuesOf(targetConfig[1])) ELSE <<>>))

\* mutant: the generated list is not handed to the resolver
getEffectiveTextConfig_dropsGenerated(p, i, generated) ==
    [p EXCEPT !.result =
        getCombined(p.configuration, p.configuration.targets[i].id, <<>>)]

\* mutant: the generated list is appended to what the resolver returns
getEffectiveTextConfig_appendsGenerated(p, i, generated) ==
    [p EXCEPT !.result =
        getCombined(p.configuration, p.configuration.targets[i].id, <<>>)
        \o dropFalsy(generated)]

\* ProjectTarget.getEffectiveTextConfig on the handle of the i-th target
getEffectiveTextConfig(p, i, generated) ==
    [p EXCEPT !.result =
        getCombined(p.configuration, p.configuration.targets[i].id, generated)]

----------------------------------------------------------------------------
(* Project methods.  A method decorated with @Project.emitsEvents(...) runs *)
(* between batchEventsEnter and batchEventsLeave.                          *)

RECURSIVE expireLoop(_, _)
expireLoop(p, i) ==
    IF i > Len(p.outputFiles) THEN p
    ELSE expireLoop(IF ~p.outputFiles[i].stale THEN setStale(p, i, TRUE) ELSE p, i + 1)

expireOutputFiles(p) ==
    LET p0 == batchEventsEnter(p)
        didUpdate == \E i \in 1..Len(p0.outputFiles) : ~p0.outputFiles[i].stale
        p1 == IF p0.outputFiles = <<>> THEN p0
              ELSE IF didUpdate THEN emitEvents(expireLoop(p0, 1), {"outputFiles"})
              ELSE expireLoop(p0, 1)
    IN  batchEventsLeave(p1, {})

RECURSIVE pushInputFiles_noCheck(_, _)
\* mutant: the loop of addInputFiles without the hasInputFile test
pushInputFiles_noCheck(list, files) ==
    IF files = <<>> THEN list
    ELSE LET file == Head(files)
         IN  pushInputFiles_noCheck(
                Append(list, [path |-> file.path,
                              type |-> IF file.type = UNDEFINED THEN "design" ELSE file.type]),
                Tail(files))

RECURSIVE pushInputFiles(_, _)
\* the loop of addInputFiles; a file is [path, type] with type possibly UNDEFINED
pushInputFiles(list, files) ==
    IF files = <<>> THEN list
    ELSE LET file == Head(files)
         IN  pushInputFiles(
                IF IndexOfPath(list, file.path) # 0 THEN list
                ELSE Append(list, [path |-> file.path,
                                   type |-> IF file.type = UNDEFINED THEN "design" ELSE file.type]),
                Tail(files))

addInputFiles(p, files, perm) ==
    LET p0 == batchEventsEnter(p)
        p1 == [p0 EXCEPT !.inputFiles = sort(pushInputFiles(@, files), perm)]
    IN  batchEventsLeave(expireOutputFiles(p1), {"inputFiles"})

removeInputFiles(p, filePaths) ==
    LET p0 == batchEventsEnter(p)
        p1 == [p0 EXCEPT !.inputFiles =
                SelectSeq2(@, {f \in {@[i] : i \in 1..Len(@)} : f.path \notin filePaths})]
    IN  batchEventsLeave(expireOutputFiles(p1), {"inputFiles"})

RECURSIVE addOutputFilesLoop_keepsOwner(_, _)
\* mutant: the loop of addOutputFiles leaves a file that exists as it is
addOutputFilesLoop_keepsOwner(p, files) ==
    IF files = <<>> \/ p.err # NoErr THEN p
    ELSE
    LET file == Head(files)
        existing == IndexOfPath(p.outputFiles, file.path)
    IN  IF existing # 0 /\ ~targetIsNull(p, file.targetId)
        THEN addOutputFilesLoop_keepsOwner(p, Tail(files))
        ELSE IF targetIsNull(p, file.targetId) THEN Throw(p, "InvalidTargetId")
        ELSE addOutputFilesLoop_keepsOwner(
                [p EXCEPT !.outputFiles = Append(@,
                    [path |-> file.path, targetId |-> file.targetId, stale |-> FALSE])],
                Tail(files))

RECURSIVE addOutputFilesLoop(_, _)
\* the loop of addOutputFiles; it stops at the first statement that throws
addOutputFilesLoop(p, files) ==
    IF files = <<>> \/ p.err # NoErr THEN p
    ELSE
    LET file == Head(files)
        existing == IndexOfPath(p.outputFiles, file.path)
        p1 == setTargetId(p, existing, file.targetId)
    IN  IF existing # 0
        THEN addOutputFilesLoop(
                IF p1.err # NoErr THEN p1 ELSE setStale(p1, existing, FALSE), Tail(files))
        ELSE IF targetIsNull(p, file.targetId) THEN Throw(p, "InvalidTargetId")
        ELSE addOutputFilesLoop(
                [p EXCEPT !.outputFiles = Append(@,
                    [path |-> file.path, targetId |-> file.targetId, stale |-> FALSE])],
                Tail(files))

addOutputFiles(p, files, perm) ==
    LET p1 == addOutputFilesLoop(batchEventsEnter(p), files)
        p2 == IF p1.err # NoErr THEN p1
              ELSE [p1 EXCEPT !.outputFiles = sort(@, perm)]
    IN  batchEventsLeave(p2, {"outputFiles"})

removeOutputFiles(p, filePaths) ==
    LET p0 == batchEventsEnter(p)
        p1 == [p0 EXCEPT !.outputFiles =
                SelectSeq2(@, {f \in {@[i] : i \in 1..Len(@)} : f.path \notin filePaths})]
    IN  batchEventsLeave(p1, {"outputFiles"})

setTopLevelModule(p, targetId, module) ==
    LET p0 == batchEventsEnter(p)
        target == IndexOfTarget(p0.configuration.targets, targetId)
        p1 == IF target = 0 THEN Throw(p0, "NoSuchTarget")
              ELSE [p0 EXCEPT !.configuration.targets[target].topLevelModule = module]
    IN  batchEventsLeave(p1, {"configuration"})

setTestbenchPath(p, targetId, testbenchPath) ==
    LET p0 == batchEventsEnter(p)
        testbenchFiles == {p0.inputFiles[i].path : i \in
                            {j \in 1..Len(p0.inputFiles) : p0.inputFiles[j].type = "testbench"}}
        target == IndexOfTarget(p0.configuration.targets, targetId)
        p1 == IF testbenchPath # UNDEFINED /\ testbenchPath # ""
                 /\ testbenchPath \notin testbenchFiles
              THEN Throw(p0, "NotATestbench")
              ELSE IF target = 0 THEN Throw(p0, "NoSuchTarget")
              ELSE [p0 EXCEPT !.configuration.targets[target].testbenchFile = testbenchPath]
    IN  batchEventsLeave(p1, {"configuration"})

setInputFileType(p, filePath, type) ==
    LET p0 == batchEventsEnter(p)
        file == IndexOfPath(p0.inputFiles, filePath)
        p1 == IF file = 0 THEN p0 ELSE setType(p0, file, type)
    IN  batchEventsLeave(p1, {"inputFiles"})

\* the id addTarget generates: target<idx> for the least idx >= 1 not in use
GeneratedId(p) ==
    LET free == {idx \in 1..(Len(p.configuration.targets) + 1) :
                    ~hasTarget(p, "target" \o ToString(idx))}
    IN  "target" \o ToString(CHOOSE idx \in free : \A other \in free : idx <= other)

\* addTarget(id?) with config undefined
addTarget(p, id) ==
    LET p0 == batchEventsEnter(p)
        newId == IF id = UNDEFINED \/ id = "" THEN GeneratedId(p0) ELSE id
        p1 == IF ~(id = UNDEFINED \/ id = "") /\ hasTarget(p0, id)
              THEN Throw(p0, "TargetExists")
              ELSE [p0 EXCEPT !.configuration.targets =
                        Append(@, [DEFAULT_TARGET EXCEPT !.id = newId])]
    IN  batchEventsLeave(p1, {"configuration"})

RECURSIVE nullTargetIds(_, _, _)
\* for (const outFile of this.outputFiles) if (<file i is in drop>) outFile.targetId = null
nullTargetIds(p, i, drop) ==
    IF i > Len(p.outputFiles) \/ p.err # NoErr THEN p
    ELSE nullTargetIds(IF i \in drop THEN setTargetId(p, i, NULL) ELSE p, i + 1, drop)

\* mutant: removeTarget deletes the output files of the target
removeTarget_deletesFiles(p, id) ==
    LET p0 == batchEventsEnter(p)
        p1 == [p0 EXCEPT !.configuration.targets =
                SelectSeq2(@, {t \in {@[i] : i \in 1..Len(@)} : t.id # id}),
               !.outputFiles =
                SelectSeq2(@, {f \in {@[i] : i \in 1..Len(@)} : f.targetId # id})]
    IN  batchEventsLeave(p1, {"configuration"})

removeTarget(p, id) ==
    LET p0 == batchEventsEnter(p)
        p1 == [p0 EXCEPT !.configuration.targets =
                SelectSeq2(@, {t \in {@[i] : i \in 1..Len(@)} : t.id # id})]
        p2 == nullTargetIds(p1, 1,
                {i \in 1..Len(p1.outputFiles) : p1.outputFiles[i].targetId = id})
    IN  batchEventsLeave(p2, {"configuration"})

\* Project.updateTarget: not decorated
updateTarget(p, id, updates) ==
    LET target == IndexOfTarget(p.configuration.targets, id)
    IN  IF target = 0 THEN Throw(p, "NoSuchTarget") ELSE update(p, target, updates)

\* updateConfiguration; a key of the Partial is None when absent
updateConfiguration(p, partial) ==
    LET p0 == batchEventsEnter(p)
        p1 == [p0 EXCEPT
                !.configuration.defaults =
                    IF partial.defaults = None THEN @ ELSE partial.defaults[1],
                !.configuration.targets =
                    IF partial.targets = None THEN @ ELSE partial.targets[1]]
        p2 == nullTargetIds(p1, 1,
                {i \in 1..Len(p1.outputFiles) : targetIsNull(p1, p1.outputFiles[i].targetId)})
    IN  batchEventsLeave(p2, {"configuration"})

EmptyPartial == [defaults |-> None, targets |-> None]

\* mutant: the constructor sets the event callback first
constructor_callbackFirst(inFiles, outFiles, config) ==
    LET p0 == [inputFiles |-> [i \in 1..Len(inFiles) |-> ProjectInputFile_deserialize(inFiles[i])],
               outputFiles |-> [i \in 1..Len(outFiles) |-> ProjectOutputFile_deserialize(outFiles[i])],
               configuration |-> schemaProjectConfiguration(config),
               batchedEvents |-> {}, batchCounter |-> 0, eventCallback |-> TRUE,
               delivered |-> <<>>, raised |-> {}, err |-> NoErr, result |-> <<>>]
    IN  updateConfiguration(p0, EmptyPartial)

\* new Project(name, inputFiles, outputFiles, configuration, eventCallback)
constructor(inFiles, outFiles, config) ==
    LET p0 == [inputFiles |-> [i \in 1..Len(inFiles) |-> ProjectInputFile_deserialize(inFiles[i])],
               outputFiles |-> [i \in 1..Len(outFiles) |-> ProjectOutputFile_deserialize(outFiles[i])],
               configuration |-> schemaProjectConfiguration(config),
               batchedEvents |-> {}, batchCounter |-> 0, eventCallback |-> FALSE,
               delivered |-> <<>>, raised |-> {}, err |-> NoErr, result |-> <<>>]
    IN  [updateConfiguration(p0, EmptyPartial) EXCEPT !.eventCallback = TRUE]

serialize(p) ==
    [inputFiles |-> [i \in 1..Len(p.inputFiles) |-> ProjectInputFile_serialize(p.inputFiles[i])],
     outputFiles |-> [i \in 1..Len(p.outputFiles) |-> ProjectOutputFile_serialize(p.outputFiles[i])],
     configuration |-> p.configuration]

deserialize(data) == constructor(data.inputFiles, data.outputFiles, data.configuration)

----------------------------------------------------------------------------
(* Persisted project files a Project is constructed from *)

PathOf(data) == IF data.typeof = "string" THEN data.value ELSE data.path

\* arrays over distinct paths, as serialize writes them
DistinctArrays(items, n) ==
    {s \in SeqsUpTo(items, n) : \A i, j \in 1..Len(s) : i # j => PathOf(s[i]) # PathOf(s[j])}

PersistedInputFiles(paths) ==
    DistinctArrays({LegacyString(path) : path \in paths}, Cardinality(paths))
    \cup DistinctArrays({InputFileState(path, type) : path \in paths, type \in FileTypes},
                        Cardinality(paths))

PersistedOutputFiles(paths) ==
    DistinctArrays({LegacyString(path) : path \in paths}, Cardinality(paths))
    \cup DistinctArrays({OutputFileState(path, targetId, stale) :
                            path \in paths, targetId \in TargetIds \cup {NULL},
                            stale \in BOOLEAN},
                        Cardinality(paths))

PlainTarget(id) == [DEFAULT_TARGET EXCEPT !.id = id]

PersistedConfigurations ==
    {DEFAULT_CONFIGURATION,
     [defaults |-> None, targets |-> <<PlainTarget("default"), PlainTarget("target1")>>]}

----------------------------------------------------------------------------
(* Actions: one top-level call each *)

\* the command line process before it has generated a pipeline
NotStarted ==
    [pc |-> "idle", command |-> "", steps |-> <<>>, step |-> 0, script |-> None,
     trace |-> <<>>]

Commit(p, op, args) ==
    /\ p.batchCounter <= MaxBatchCounter
    /\ inputFiles' = p.inputFiles
    /\ outputFiles' = p.outputFiles
    /\ configuration' = p.configuration
    /\ batchedEvents' = p.batchedEvents
    /\ batchCounter' = p.batchCounter
    /\ call' = [op |-> op, args |-> args, err |-> p.err,
                delivered |-> p.delivered, raised |-> p.raised, result |-> p.result]
    /\ cli' = cli

Construct(inFiles, outFiles, config) ==
    LET p == constructor(inFiles, outFiles, config)
    IN  /\ inputFiles = p.inputFiles
        /\ outputFiles = p.outputFiles
        /\ configuration = p.configuration
        /\ batchedEvents = p.batchedEvents
        /\ batchCounter = p.batchCounter
        /\ call = [op |-> "constructor",
                   args |-> [inputFiles |-> inFiles, outputFiles |-> outFiles,
                             configuration |-> config],
                   err |-> p.err, delivered |-> p.delivered, raised |-> p.raised,
                   result |-> p.result]
        /\ cli = NotStarted

NoArgs == <<>>

\* a throw inside a decorated method leaves batchCounter incremented for good;
\* calls are explored while the counter is within MaxBatchCounter
WithinBounds == batchCounter <= MaxBatchCounter
Targets == configuration.targets
Handles == 1..Len(Targets)

AddInputFiles(paths) ==
    /\ WithinBounds
    /\ \E files \in SeqsUpTo({[path |-> path, type |-> type] :
                               path \in paths, type \in FileTypes \cup {UNDEFINED}},
                             MaxFilesPerCall) :
           \E perm \in Perms(Len(pushInputFiles(inputFiles, files))) :
               Commit(addInputFiles(This, files, perm), "addInputFiles", [files |-> files])

RemoveInputFiles(paths) ==
    /\ WithinBounds
    /\ \E filePaths \in SUBSET paths :
           Commit(removeInputFiles(This, filePaths), "removeInputFiles", NoArgs)

AddOutputFiles(paths) ==
    /\ WithinBounds
    /\ \E files \in SeqsUpTo({[path |-> path, targetId |-> targetId] :
                               path \in paths, targetId \in TargetIds},
                             MaxFilesPerCall) :
           \E perm \in Perms(Len(addOutputFilesLoop(This, files).outputFiles)) :
               Commit(addOutputFiles(This, files, perm), "addOutputFiles", [files |-> files])

RemoveOutputFiles(paths) ==
    /\ WithinBounds
    /\ \E filePaths \in SUBSET paths :
           Commit(removeOutputFiles(This, filePaths), "removeOutputFiles", NoArgs)

ExpireOutputFiles ==
    /\ WithinBounds
    /\ Commit(expireOutputFiles(This), "expireOutputFiles", NoArgs)

SetTopLevelModule ==
    /\ WithinBounds
    /\ \E targetId \in TargetIds :
           Commit(setTopLevelModule(This, targetId, "top"), "setTopLevelModule", NoArgs)

SetTestbenchPath(paths) ==
    /\ WithinBounds
    /\ \E targetId \in TargetIds, testbenchPath \in paths \cup {UNDEFINED} :
           Commit(setTestbenchPath(This, targetId, testbenchPath), "setTestbenchPath", NoArgs)

SetInputFileType(paths) ==
    /\ WithinBounds
    /\ \E filePath \in paths, type \in FileTypes :
           Commit(setInputFileType(This, filePath, type), "setInputFileType", NoArgs)

AddTarget ==
    /\ WithinBounds
    /\ Len(Targets) < MaxTargets
    /\ \E id \in TargetIds \cup {UNDEFINED} :
        Commit(addTarget(This, id), "addTarget", [id |-> id])

RemoveTarget ==
    /\ WithinBounds
    /\ \E id \in TargetIds \cup {Targets[i].id : i \in Handles} :
           Commit(removeTarget(This, id), "removeTarget", [id |-> id])

UpdateTarget ==
    /\ WithinBounds
    /\ \E id \in TargetIds, newId \in TargetIds \cup {UNDEFINED} :
           Commit(updateTarget(This, id, [id |-> newId]), "updateTarget", [id |-> newId])

TargetUpdate ==
    /\ WithinBounds
    /\ \E i \in Handles, newId \in TargetIds \cup {UNDEFINED} :
           Commit(update(This, i, [id |-> newId]), "update", [id |-> newId])

TargetSetId ==
    /\ WithinBounds
    /\ \E i \in Handles, newId \in TargetIds :
           Commit(setId(This, i, newId), "setId", [id |-> newId])

TargetSetConfigId ==
    /\ WithinBounds
    /\ \E i \in Handles, newId \in TargetIds :
           Commit(setConfig(This, i, <<"id">>, newId), "setConfig", [id |-> newId])

UpdateConfiguration ==
    /\ WithinBounds
    /\ \E config \in PersistedConfigurations, replace \in BOOLEAN :
           Commit(updateConfiguration(This,
                       [defaults |-> None,
                        targets |-> IF replace THEN Some(config.targets) ELSE None]),
                  "updateConfiguration", NoArgs)

\* Project.deserialize(Project.serialize(project)): the project written and loaded again
Reload ==
    /\ WithinBounds
    /\ Commit(deserialize(serialize(This)), "deserialize", NoArgs)

----------------------------------------------------------------------------
(* Spec: every decorated Project method, on a project with one input path *)
(* and one output path                                                     *)

EventInputPaths == {"tb.v"}
EventOutputPaths == {"out.json"}

Init ==
    \E inFiles \in PersistedInputFiles(EventInputPaths),
       outFiles \in PersistedOutputFiles(EventOutputPaths),
       config \in PersistedConfigurations :
        Construct(inFiles, outFiles, config)

Next ==
    \/ AddInputFiles(EventInputPaths)
    \/ RemoveInputFiles(EventInputPaths)
    \/ AddOutputFiles(EventOutputPaths)
    \/ RemoveOutputFiles(EventOutputPaths)
    \/ ExpireOutputFiles
    \/ SetTopLevelModule
    \/ SetTestbenchPath(EventInputPaths)
    \/ SetInputFileType(EventInputPaths)
    \/ AddTarget
    \/ RemoveTarget
    \/ UpdateConfiguration
    \/ Reload

Spec == Init /\ [][Next]_vars

----------------------------------------------------------------------------
(* SpecTargets: output files and targets, with the ProjectTarget mutators *)

InitTargets ==
    \E outFiles \in PersistedOutputFiles(OutputPaths), config \in PersistedConfigurations :
        Construct(<<>>, outFiles, config)

NextTargets ==
    \/ AddOutputFiles(OutputPaths)
    \/ RemoveOutputFiles(OutputPaths)
    \/ AddTarget
    \/ RemoveTarget
    \/ UpdateTarget
    \/ TargetUpdate
    \/ TargetSetId
    \/ TargetSetConfigId
    \/ UpdateConfiguration
    \/ Reload

SpecTargets == InitTargets /\ [][NextTargets]_vars

----------------------------------------------------------------------------
(* SpecConfig: one target, its yosys.commands value list, the project      *)
(* defaults' value list and the resolver                                   *)

MaxValues == 2

GeneratedLists == SeqsUpTo({"g1", "g2", ""}, MaxValues)
DefaultLists == SeqsUpTo({"-d", ""}, MaxValues)
TargetLists == SeqsUpTo({"-t", ""}, MaxValues)
Flags == {"true", "false"}

PersistedDefaults ==
    {None} \cup {Some(RawValueList(useGenerated, values)) :
                    useGenerated \in Flags \cup {UNDEFINED},
                    values \in {None} \cup {Some(v) : v \in DefaultLists}}

PersistedCommands ==
    {None} \cup {Some(RawValueListTarget(useGenerated, useDefault, values)) :
                    useGenerated \in Flags \cup {UNDEFINED},
                    useDefault \in Flags \cup {UNDEFINED},
                    values \in {None} \cup {Some(v) : v \in TargetLists}}

InitConfig ==
    \E defaults \in PersistedDefaults, commands \in PersistedCommands :
        Construct(<<>>, <<>>,
                  [defaults |-> defaults,
                   targets |-> <<Target("default", commands, UNDEFINED, UNDEFINED)>>])

GetEffectiveTextConfig ==
    /\ WithinBounds
    /\ \E i \in Handles, generated \in GeneratedLists :
           Commit(getEffectiveTextConfig(This, i, generated), "getEffectiveTextConfig",
                  [target |-> i, generated |-> generated])

TargetSetConfigValues ==
    /\ WithinBounds
    /\ \E i \in Handles, values \in TargetLists :
           Commit(setConfig(This, i, <<"yosys", "commands", "values">>, values),
                  "setConfig", NoArgs)

TargetSetConfigFlag ==
    /\ WithinBounds
    /\ \E i \in Handles, key \in {"useGenerated", "useDefault"}, flag \in Flags :
           Commit(setConfig(This, i, <<"yosys", "commands", key>>, flag),
                  "setConfig", NoArgs)

UpdateConfigurationDefaults ==
    /\ WithinBounds
    /\ \E useGenerated \in Flags, values \in DefaultLists :
           Commit(updateConfiguration(This,
                       [defaults |-> Some(Some(RawValueList(useGenerated, Some(values)))),
                        targets |-> None]),
                  "updateConfiguration", NoArgs)

NextConfig ==
    \/ GetEffectiveTextConfig
    \/ TargetSetConfigValues
    \/ TargetSetConfigFlag
    \/ UpdateConfigurationDefaults
    \/ Reload

SpecConfig == InitConfig /\ [][NextConfig]_vars

----------------------------------------------------------------------------
(* Properties of the project model *)

TargetIdSet == {Targets[i].id : i \in Handles}
OutputIndices == 1..Len(outputFiles)

\* C1: every output file's targetId is null or the id of a target that is
\* currently in the configuration
C1_OutputTargetsExist ==
    \A i \in OutputIndices :
        outputFiles[i].targetId = NULL \/ outputFiles[i].targetId \in TargetIdSet

\* C2: removeTarget(id) removes the targets with that id and nulls the targetId
\* of the output files that had it; the paths, the stale flags and the other
\* files' targetId are unchanged and no output file is deleted
C2_RemoveTargetFrame ==
    [][call'.op = "removeTarget" =>
        /\ call'.err = NoErr
        /\ configuration'.targets =
             SelectSeq2(Targets, {t \in {Targets[i] : i \in Handles} : t.id # call'.args.id})
        /\ Len(outputFiles') = Len(outputFiles)
        /\ \A i \in OutputIndices :
            /\ outputFiles'[i].path = outputFiles[i].path
            /\ outputFiles'[i].stale = outputFiles[i].stale
            /\ outputFiles'[i].targetId =
                 IF outputFiles[i].targetId = call'.args.id THEN NULL
                 ELSE outputFiles[i].targetId]_vars

\* a removeTarget that nulled the targetId of a file and left a file of another
\* target alone
C2_Witness ==
    /\ call.op = "removeTarget"
    /\ "outputFiles" \in call.raised
    /\ \E i, j \in OutputIndices :
        outputFiles[i].targetId = NULL /\ outputFiles[j].targetId # NULL

\* C3: no two targets of the configuration have the same id
C3_TargetIdsUnique ==
    \A i, j \in Handles : i # j => Targets[i].id # Targets[j].id

DecoratedOps ==
    {"addInputFiles", "removeInputFiles", "addOutputFiles", "removeOutputFiles",
     "expireOutputFiles", "setInputFileType", "addTarget", "removeTarget",
     "updateConfiguration", "setTopLevelModule", "setTestbenchPath"}

\* the events each method names in its @Project.emitsEvents decorator
Declared(op) ==
    IF op \in {"addInputFiles", "removeInputFiles", "setInputFileType"} THEN {"inputFiles"}
    ELSE IF op \in {"addOutputFiles", "removeOutputFiles"} THEN {"outputFiles"}
    ELSE IF op = "expireOutputFiles" THEN {}
    ELSE {"configuration"}

\* C4: a top-level call of a decorated Project method invokes the callback at
\* most once, with the project as the call leaves it, and with the events the
\* method declares together with those its nested setters and methods raised
C4_SingleNotification ==
    call.op \in DecoratedOps =>
        /\ Len(call.delivered) <= 1
        /\ \A n \in 1..Len(call.delivered) :
            /\ call.delivered[n].events = call.raised
            /\ Declared(call.op) \subseteq call.delivered[n].events
            /\ call.delivered[n].inputFiles = inputFiles
            /\ call.delivered[n].outputFiles = outputFiles
            /\ call.delivered[n].configuration = configuration

\* addInputFiles whose nested expireOutputFiles marked a file stale: one
\* notification with both event kinds
C4_Witness ==
    /\ call.op = "addInputFiles"
    /\ Len(call.delivered) = 1
    /\ call.delivered[1].events = {"inputFiles", "outputFiles"}

C5Ops ==
    {"addInputFiles", "removeInputFiles", "setInputFileType", "updateConfiguration",
     "addTarget", "setTopLevelModule", "setTestbenchPath"}

\* C5: a call that changed the input files or the configuration leaves every
\* output file stale, and a stale output file stays stale until addOutputFiles
\* registers it again
C5_ChangesExpireOutputs ==
    [][/\ (/\ call'.op \in C5Ops
           /\ call'.err = NoErr
           /\ (inputFiles' # inputFiles \/ configuration' # configuration))
          => \A j \in 1..Len(outputFiles') : outputFiles'[j].stale
       /\ call'.op # "addOutputFiles"
          => \A i \in OutputIndices, j \in 1..Len(outputFiles') :
                (outputFiles[i].path = outputFiles'[j].path /\ outputFiles[i].stale)
                    => outputFiles'[j].stale]_vars

\* C6: Project.deserialize(Project.serialize(p)) has the input files, the
\* output files (in order) and the configuration of p
C6_RoundTrip ==
    LET q == deserialize(serialize(This))
    IN  /\ q.inputFiles = inputFiles
        /\ q.outputFiles = outputFiles
        /\ q.configuration = configuration

\* C7: a project constructed from bare path strings has, for each string, an
\* input file of type design or an output file with no target that is not
\* stale; serialize writes structured objects only
C7_LegacyUpgrade ==
    /\ call.op = "constructor" =>
        /\ Len(inputFiles) = Len(call.args.inputFiles)
        /\ Len(outputFiles) = Len(call.args.outputFiles)
        /\ \A i \in 1..Len(call.args.inputFiles) :
            call.args.inputFiles[i].typeof = "string" =>
                inputFiles[i] = [path |-> call.args.inputFiles[i].value, type |-> "design"]
        /\ \A i \in 1..Len(call.args.outputFiles) :
            call.args.outputFiles[i].typeof = "string" =>
                outputFiles[i] = [path |-> call.args.outputFiles[i].value,
                                  targetId |-> NULL, stale |-> FALSE]
    /\ \A i \in 1..Len(inputFiles) : serialize(This).inputFiles[i].typeof = "object"
    /\ \A i \in OutputIndices : serialize(This).outputFiles[i].typeof = "object"

\* a project constructed from a legacy input array and a legacy output array
C7_Witness ==
    /\ call.op = "constructor"
    /\ \E i \in 1..Len(call.args.inputFiles) : call.args.inputFiles[i].typeof = "string"
    /\ \E i \in 1..Len(call.args.outputFiles) : call.args.outputFiles[i].typeof = "string"

----------------------------------------------------------------------------
(* Properties of value-list resolution *)

NonEmpty(value) == value # ""
Kept(values) == SelectSeq(values, NonEmpty)

\* the layers of the call recorded in call: the list handed in, the project
\* defaults' values and the target's values
CallTarget == Targets[call.args.target]
LayerG == call.args.generated
LayerD == IF configuration.defaults = None THEN <<>> ELSE valuesOf(configuration.defaults[1])
LayerT == IF CallTarget.commands = None THEN <<>> ELSE valuesOf(CallTarget.commands[1])

TargetSays(key, flag) ==
    CallTarget.commands # None /\ CallTarget.commands[1][key] = flag

\* C8: with useGenerated = true and useDefault = true on the target, the
\* effective list is G, then D, then T, without their empty entries
C8_GeneratedDefaultTarget ==
    (/\ call.op = "getEffectiveTextConfig"
     /\ TargetSays("useGenerated", "true")
     /\ TargetSays("useDefault", "true"))
    => call.result = Kept(LayerG) \o Kept(LayerD) \o Kept(LayerT)

\* all three layers have two entries that are kept, so the order shows
C8_Witness ==
    /\ call.op = "getEffectiveTextConfig"
    /\ TargetSays("useGenerated", "true")
    /\ TargetSays("useDefault", "true")
    /\ LayerG = <<"g1", "g2">>
    /\ Len(Kept(LayerD)) >= 1
    /\ Len(Kept(LayerT)) >= 1
    /\ Len(LayerD) > Len(Kept(LayerD))

\* C9: useGenerated = false on the target removes G whatever the defaults
\* say; useDefault = false on the target removes D and keeps G, then T
C9_DisabledLayers ==
    call.op = "getEffectiveTextConfig" =>
        /\ TargetSays("useGenerated", "false") =>
            call.result =
                (IF TargetSays("useDefault", "false") THEN <<>> ELSE Kept(LayerD))
                \o Kept(LayerT)
        /\ (TargetSays("useDefault", "false") /\ TargetSays("useGenerated", "true")) =>
            call.result = Kept(LayerG) \o Kept(LayerT)

\* generated entries are dropped although the defaults enable them
C9_Witness ==
    /\ call.op = "getEffectiveTextConfig"
    /\ TargetSays("useGenerated", "false")
    /\ configuration.defaults # None
    /\ configuration.defaults[1].useGenerated = "true"
    /\ Kept(LayerG) # <<>>
    /\ Kept(LayerD) # <<>>
    /\ Kept(LayerT) # <<>>

\* what the persisted configuration states: the target block's useGenerated,
\* else the defaults block's, else true
PersistedUseGenerated(raw, i) ==
    LET targetBlock == raw.targets[i].commands
    IN  IF targetBlock # None /\ targetBlock[1].useGenerated # UNDEFINED
        THEN targetBlock[1].useGenerated = "true"
        ELSE IF raw.defaults # None /\ raw.defaults[1].useGenerated # UNDEFINED
        THEN raw.defaults[1].useGenerated = "true"
        ELSE TRUE

\* C10: on a freshly parsed configuration the effective useGenerated of a
\* target is what its persisted block states, else what the persisted
\* defaults block states, else true
C10_UseGeneratedPrecedence ==
    call.op = "constructor" =>
        \A i \in Handles :
            LET effective == getEffectiveTextConfig(This, i, <<"g1">>).result
            IN  (effective # <<>> /\ effective[1] = "g1")
                    <=> PersistedUseGenerated(call.args.configuration, i)

----------------------------------------------------------------------------
(* Device catalog (devices.ts): vendors, their families with an            *)
(* architecture tag, the devices of a family and the packages of a device. *)
(* An object is the sequence of its entries in key order.                  *)

VENDORS ==
    <<[id |-> "lattice", families |->
        <<[id |-> "ecp5", architecture |-> "ecp5", devices |->
            <<[id |-> "lfe5u-12", device |-> "12k",
               packages |-> <<"caBGA381", "caBGA256">>]>>],
          [id |-> "ice40", architecture |-> "ice40", devices |->
            <<[id |-> "lp8k", device |-> "lp8k", packages |-> <<"cm225">>]>>],
          [id |-> "nexus", architecture |-> "nexus", devices |->
            <<[id |-> "lifcl-40", device |-> "LIFCL-40",
               packages |-> <<"caBGA400", "QFN72">>]>>],
          [id |-> "machxo2", architecture |-> "machxo2", devices |->
            <<[id |-> "xo2-640", device |-> "LCMXO2-640", packages |-> <<"QFN48">>]>>]>>],
      [id |-> "gowin", families |->
        <<[id |-> "gw1n", architecture |-> "gowin", devices |->
            <<[id |-> "gw1n-1", device |-> "GW1N-1", packages |-> <<"QN48">>]>>]>>],
      [id |-> "generic", families |->
        <<[id |-> "generic", architecture |-> "generic", devices |->
            <<[id |-> "generic", device |-> "generic", packages |-> <<"generic">>]>>]>>]>>

\* object[id]: the entry with that key, or undefined
Lookup(entries, id) ==
    IF \E k \in 1..Len(entries) : entries[k].id = id
    THEN Some(entries[CHOOSE k \in 1..Len(entries) : entries[k].id = id])
    ELSE None

\* Object.keys(object)[0]
FirstKey(keys) == IF keys = <<>> THEN UNDEFINED ELSE keys[1]
Keys(entries) == [k \in 1..Len(entries) |-> entries[k].id]
Range(list) == {list[k] : k \in 1..Len(list)}
Includes(list, value) == \E k \in 1..Len(list) : list[k] = value

\* the getters of ProjectTarget on the target record data
vendor(data) == Lookup(VENDORS, data.vendor)
availableFamilies(data) == IF vendor(data) = None THEN <<>> ELSE vendor(data)[1].families
family(data) == Lookup(availableFamilies(data), data.family)
availableDevices(data) == IF family(data) = None THEN <<>> ELSE family(data)[1].devices
device(data) == Lookup(availableDevices(data), data.device)
\* the keys of availablePackages: the package ids of the device, in order
availablePackages(data) == IF device(data) = None THEN <<>> ELSE device(data)[1].packages

\* a target with its device selection, its output directory and the option
\* blocks of the tools; an option the block does not have is ABSENT
DeviceTarget(id, tuple, directory, options) ==
    [id |-> id, commands |-> None,
     topLevelModule |-> options.topLevelModule, testbenchFile |-> options.testbenchFile,
     placedSvg |-> options.placedSvg, routedSvg |-> options.routedSvg,
     routedJson |-> options.routedJson,
     vendor |-> tuple[1], family |-> tuple[2], device |-> tuple[3], package |-> tuple[4],
     directory |-> directory]

NoOptions ==
    [topLevelModule |-> ABSENT, testbenchFile |-> ABSENT,
     placedSvg |-> ABSENT, routedSvg |-> ABSENT, routedJson |-> ABSENT]

setVendor(p, i, vendorId) ==
    LET this == p.configuration.targets[i]
        d1 == [this EXCEPT !.vendor = vendorId]
        d2 == [d1 EXCEPT !.family = FirstKey(Keys(availableFamilies(d1)))]
        d3 == [d2 EXCEPT !.device = FirstKey(Keys(availableDevices(d2)))]
        d4 == [d3 EXCEPT !.package = FirstKey(availablePackages(d3))]
    IN  IF vendorId = this.vendor THEN p
        ELSE IF Lookup(VENDORS, vendorId) = None THEN Throw(p, "InvalidVendor")
        ELSE triggerConfigurationChanged([p EXCEPT !.configuration.targets[i] = d4])

setFamily(p, i, familyId) ==
    LET this == p.configuration.targets[i]
        d1 == [this EXCEPT !.family = familyId]
        d2 == [d1 EXCEPT !.device = FirstKey(Keys(availableDevices(d1)))]
        d3 == [d2 EXCEPT !.package = FirstKey(availablePackages(d2))]
    IN  IF familyId = this.family THEN p
        ELSE IF Lookup(availableFamilies(this), familyId) = None
        THEN Throw(p, "InvalidFamily")
        ELSE triggerConfigurationChanged([p EXCEPT !.configuration.targets[i] = d3])

setDevice(p, i, deviceId) ==
    LET this == p.configuration.targets[i]
        d1 == [this EXCEPT !.device = deviceId]
        d2 == [d1 EXCEPT !.package = FirstKey(availablePackages(d1))]
    IN  IF deviceId = this.device THEN p
        ELSE IF Lookup(availableDevices(this), deviceId) = None
        THEN Throw(p, "InvalidDevice")
        ELSE triggerConfigurationChanged([p EXCEPT !.configuration.targets[i] = d2])

setPackage(p, i, packageId) ==
    LET this == p.configuration.targets[i]
    IN  IF packageId = this.package THEN p
        ELSE IF ~Includes(availablePackages(this), packageId)
        THEN Throw(p, "InvalidPackage")
        ELSE triggerConfigurationChanged(
                [p EXCEPT !.configuration.targets[i].package = packageId])

----------------------------------------------------------------------------
(* SpecDevice: one target and the calls that change its device selection *)

VendorIds == {"lattice", "gowin", "generic", "bogus"}
FamilyIds == {"ecp5", "ice40", "nexus", "gw1n", "generic"}
DeviceIds == {"lfe5u-12", "lp8k", "lifcl-40", "gw1n-1", "generic"}
PackageIds == {"caBGA381", "caBGA256", "cm225", "caBGA400", "QFN72", "QN48", "generic"}

\* the selections the catalog offers
CatalogTuples ==
    UNION {UNION {UNION {{<<v.id, f.id, d.id, d.packages[k]>> : k \in 1..Len(d.packages)} :
                         d \in Range(f.devices)} :
                  f \in Range(v.families)} :
           v \in Range(VENDORS)}

InitDevice ==
    \E tuple \in CatalogTuples :
        Construct(<<>>, <<>>,
                  [defaults |-> None,
                   targets |-> <<DeviceTarget("default", tuple, ABSENT, NoOptions)>>])

TargetSetVendor ==
    /\ WithinBounds
    /\ \E i \in Handles, vendorId \in VendorIds :
           Commit(setVendor(This, i, vendorId), "setVendor", [value |-> vendorId])

TargetSetFamily ==
    /\ WithinBounds
    /\ \E i \in Handles, familyId \in FamilyIds :
           Commit(setFamily(This, i, familyId), "setFamily", [value |-> familyId])

TargetSetDevice ==
    /\ WithinBounds
    /\ \E i \in Handles, deviceId \in DeviceIds :
           Commit(setDevice(This, i, deviceId), "setDevice", [value |-> deviceId])

TargetSetPackage ==
    /\ WithinBounds
    /\ \E i \in Handles, packageId \in PackageIds :
           Commit(setPackage(This, i, packageId), "setPackage", [value |-> packageId])

\* the selection keys with the ids a caller may hand in for each
SelectionValues ==
    {<<"vendor", id>> : id \in VendorIds} \cup {<<"family", id>> : id \in FamilyIds}
    \cup {<<"device", id>> : id \in DeviceIds} \cup {<<"package", id>> : id \in PackageIds}

TargetUpdateSelection ==
    /\ WithinBounds
    /\ \E i \in Handles, kv \in SelectionValues :
           Commit(update(This, i, [id |-> UNDEFINED] @@ (kv[1] :> kv[2])),
                  "update", [key |-> kv[1], value |-> kv[2]])

TargetSetConfigSelection ==
    /\ WithinBounds
    /\ \E i \in Handles, kv \in SelectionValues :
           Commit(setConfig(This, i, <<kv[1]>>, kv[2]),
                  "setConfig", [key |-> kv[1], value |-> kv[2]])

NextDevice ==
    \/ TargetSetVendor
    \/ TargetSetFamily
    \/ TargetSetDevice
    \/ TargetSetPackage
    \/ TargetUpdateSelection
    \/ TargetSetConfigSelection

SpecDevice == InitDevice /\ [][NextDevice]_vars

TupleResolves(data) ==
    /\ family(data) # None
    /\ device(data) # None
    /\ Includes(availablePackages(data), data.package)

\* C12: the family of every target exists under its vendor, the device under
\* the family, and the package is in the device's package list
C12_TupleResolves ==
    \A i \in Handles : TupleResolves(Targets[i])

----------------------------------------------------------------------------
(* Scalar options (target.ts getOptions; the DEFAULT_OPTIONS of the tools) *)
(* The options a configuration gives are the fields of the target record   *)
(* and of configuration.defaultOptions; a boolean is "true" or "false".    *)

\* !!value
Truthy(value) == value \notin {ABSENT, UNDEFINED, NULL, "", "false"}

\* object[key] for a key the object may not have
Get(object, key) == IF key \in DOMAIN object THEN object[key] ELSE ABSENT

\* getTarget(configuration, targetId) of target.ts: index of the target, 0 when
\* there is none (the call then throws)
getTarget(config, targetId) == IndexOfTarget(config.targets, targetId)

\* {...defaultValues, ...configuration.defaults?.[tool]?.options, ...target[tool]?.options}
getOptions(config, targetId, keys, defaultValues) ==
    LET target == config.targets[getTarget(config, targetId)]
        defaults(key) == IF "defaultOptions" \in DOMAIN config
                         THEN Get(config.defaultOptions, key) ELSE ABSENT
    IN  [key \in keys |->
            IF Get(target, key) # ABSENT THEN target[key]
            ELSE IF defaults(key) # ABSENT THEN defaults(key)
            ELSE IF key \in DOMAIN defaultValues THEN defaultValues[key]
            ELSE UNDEFINED]

YosysOptionKeys == {"optimize", "topLevelModule"}
NextpnrOptionKeys == {"placedSvg", "routedSvg", "routedJson", "pinConfigFile"}
IVerilogOptionKeys == {"testbenchFile"}

DEFAULT_OPTIONS_yosys == [optimize |-> "true"]
DEFAULT_OPTIONS_nextpnr ==
    [placedSvg |-> "false", routedSvg |-> "false", routedJson |-> "true",
     pinConfigFile |-> UNDEFINED]
DEFAULT_OPTIONS_iverilog == [testbenchFile |-> UNDEFINED]

getYosysOptions(config, targetId) ==
    getOptions(config, targetId, YosysOptionKeys, DEFAULT_OPTIONS_yosys)

\* mutant: the project defaults win over the target
getNextpnrOptions_defaultsWin(config, targetId) ==
    LET target == config.targets[getTarget(config, targetId)]
        defaults == config.defaultOptions
    IN  [key \in NextpnrOptionKeys |->
            IF Get(defaults, key) # ABSENT THEN defaults[key]
            ELSE IF Get(target, key) # ABSENT THEN target[key]
            ELSE DEFAULT_OPTIONS_nextpnr[key]]

getNextpnrOptions(config, targetId) ==
    getOptions(config, targetId, NextpnrOptionKeys, DEFAULT_OPTIONS_nextpnr)

getIVerilogOptions(config, targetId) ==
    getOptions(config, targetId, IVerilogOptionKeys, DEFAULT_OPTIONS_iverilog)

\* ProjectTarget.getEffectiveOptions on the handle of the i-th target
getEffectiveOptions(p, i, workerId) ==
    LET id == p.configuration.targets[i].id
    IN  IF workerId = "yosys"
        THEN [p EXCEPT !.result = getYosysOptions(p.configuration, id)]
        ELSE IF workerId = "nextpnr"
        THEN [p EXCEPT !.result = getNextpnrOptions(p.configuration, id)]
        ELSE IF workerId = "iverilog"
        THEN [p EXCEPT !.result = getIVerilogOptions(p.configuration, id)]
        ELSE Throw(p, "UnsupportedWorker")

\* getTargetFile(target, file) of target.ts: the file inside the target's
\* output directory when the target has one
getTargetFile(target, file) ==
    IF Get(target, "directory") \in {ABSENT, UNDEFINED} THEN file
    ELSE target.directory \o "/" \o file

\* getCombined(configuration, targetId, tool, key, generated) for a value list
\* other than yosys.commands: the configurations of this model have no block
\* for it at either layer, so the resolver returns the generated entries
getCombinedGenerated(generated) == dropFalsy(generated)

\* parseArgs of string-args-parser on the argument strings of this model
parseArgs(arg) ==
    CASE arg = "" -> <<>>
      [] arg = "--seed 1" -> <<"--seed", "1">>
      [] OTHER -> <<arg>>

RECURSIVE parseNextpnrArguments(_)
\* args.flatMap((arg) => parseArgs(arg))
parseNextpnrArguments(args) ==
    IF args = <<>> THEN <<>>
    ELSE parseArgs(Head(args)) \o parseNextpnrArguments(Tail(args))

\* the parse callback a generator hands to getCombined, by its name
Parse(parse, values) ==
    IF parse = "parseNextpnrArguments" THEN parseNextpnrArguments(values)
    ELSE defaultParse(values)

\* getCombined(configuration, targetId, tool, key, generated, parse) for the
\* value list that the configuration keeps under listId (tool and key); a
\* configuration without that list has no block at either layer
getCombinedList(config, targetId, listId, generated, parse) ==
    LET target == config.targets[getTarget(config, targetId)]
        targetConfig == IF listId \in DOMAIN target THEN target[listId] ELSE None
        defaultConfig == IF "defaultLists" \in DOMAIN config
                         THEN config.defaultLists[listId] ELSE None
        combined ==
            (IF resolveUseGenerated(defaultConfig, targetConfig) THEN generated ELSE <<>>)
            \o (IF resolveUseDefault(targetConfig) /\ defaultConfig # None
                THEN Parse(parse, valuesOf(defaultConfig[1])) ELSE <<>>)
            \o (IF targetConfig # None THEN Parse(parse, valuesOf(targetConfig[1])) ELSE <<>>)
    IN  SelectSeq2(combined, {value \in Range(combined) : Truthy(value)})

----------------------------------------------------------------------------
(* nextpnr step generator (nextpnr.ts) *)

\* String.prototype.toUpperCase on the package ids of this model
ToUpperCase(s) ==
    CASE s = "caBGA381" -> "CABGA381"
      [] s = "caBGA256" -> "CABGA256"
      [] s = "caBGA400" -> "CABGA400"
      [] s = "cm225" -> "CM225"
      [] s = "generic" -> "GENERIC"
      [] s = "constructor" -> "CONSTRUCTOR"
      [] OTHER -> s

\* device.device.replace('-', '-UV') on the device names of this model
ReplaceDash(s) ==
    CASE s = "GW1N-1" -> "GW1N-UV1"
      [] s = "LIFCL-40" -> "LIFCL-UV40"
      [] OTHER -> s

packageLookup ==
    <<[id |-> "WLCSP72", value |-> "UWG72"], [id |-> "QFN72", value |-> "SG72"],
      [id |-> "csfBGA121", value |-> "MG121"], [id |-> "caBGA256", value |-> "BG256"],
      [id |-> "csfBGA289", value |-> "MG289"], [id |-> "caBGA400", value |-> "BG400"]>>

\* property names every object literal inherits from Object.prototype
ObjectPrototypeKeys == {"constructor", "toString", "valueOf", "hasOwnProperty"}

\* object[key] on an object literal: an own property, else an inherited one
\* (a function, which a template literal prints as its source), else undefined
GetProperty(object, key) ==
    IF Lookup(object, key) # None THEN Lookup(object, key)[1].value
    ELSE IF key \in ObjectPrototypeKeys
    THEN "function " \o (IF key = "constructor" THEN "Object" ELSE key)
         \o "() { [native code] }"
    ELSE UNDEFINED

\* mutant: the flag and the file are pushed whatever the option says
OptionalOutput_always(enabled, flag, file) == <<flag, file>>

\* the flag and the file of an output that an option enables
OptionalOutput(enabled, flag, file) == IF Truthy(enabled) THEN <<flag, file>> ELSE <<>>

getNextpnrWorkerOptions(p, targetId) ==
    LET config == p.configuration
        t == getTarget(config, targetId)
    IN  IF t = 0 THEN Throw(p, "TargetNotFound")
        ELSE
        LET target == config.targets[t]
            options == getNextpnrOptions(config, targetId)
        IN  IF vendor(target) = None \/ family(target) = None THEN Throw(p, "TypeError")
            ELSE
            LET architecture == family(target)[1].architecture
                combinedInputFiles == getCombinedList(config, targetId, "nextpnrInputFiles",
                                <<getTargetFile(target, architecture \o ".json")>>,
                                "defaultParse")
                tool == "nextpnr-" \o architecture
                deviceName == device(target)[1].device
                devPackage == GetProperty(packageLookup, target.package)
                bitstream == getTargetFile(target, architecture \o
                                (IF architecture = "ecp5" THEN ".config" ELSE ".asc"))
                archOutputFiles ==
                    IF architecture \in {"ecp5", "ice40"} THEN <<bitstream>> ELSE <<>>
                archArgs ==
                    CASE architecture = "ecp5" ->
                            <<"--" \o deviceName, "--package", ToUpperCase(target.package)>>
                            \o OptionalOutput(options.pinConfigFile, "--lpf", options.pinConfigFile)
                            \o <<"--textcfg", bitstream>>
                      [] architecture = "generic" -> <<>>
                      [] architecture = "gowin" ->
                            <<"--device", ReplaceDash(deviceName) \o target.package \o "C5/I4">>
                      [] architecture = "ice40" ->
                            <<"--" \o deviceName, "--package", target.package>>
                            \o OptionalOutput(options.pinConfigFile, "--pcf", options.pinConfigFile)
                            \o <<"--asc", bitstream>>
                      [] architecture = "nexus" ->
                            <<"--device", deviceName \o "-7" \o devPackage \o "C">>
                placed == getTargetFile(target, "placed.svg")
                routed == getTargetFile(target, "routed.svg")
                routedJson == getTargetFile(target, "routed.nextpnr.json")
                generatedOutputFiles ==
                    archOutputFiles
                    \o (IF Truthy(options.placedSvg) THEN <<placed>> ELSE <<>>)
                    \o (IF Truthy(options.routedSvg) THEN <<routed>> ELSE <<>>)
                    \o (IF Truthy(options.routedJson) THEN <<routedJson>> ELSE <<>>)
                generatedArgs ==
                    archArgs \o <<"--json", IF combinedInputFiles = <<>> THEN UNDEFINED
                                    ELSE combinedInputFiles[1]>>
                    \o OptionalOutput(options.placedSvg, "--placed-svg", placed)
                    \o OptionalOutput(options.routedSvg, "--routed-svg", routed)
                    \o OptionalOutput(options.routedJson, "--write", routedJson)
            IN  IF architecture \notin {"ecp5", "generic", "gowin", "ice40", "nexus"}
                THEN Throw(p, "UnsupportedArchitecture")
                ELSE IF architecture # "generic" /\ device(target) = None
                THEN Throw(p, "TypeError")
                ELSE IF architecture = "nexus" /\ ~Truthy(devPackage)
                THEN Throw(p, "UnsupportedPackage")
                ELSE [p EXCEPT !.result =
                        [inputFiles |-> combinedInputFiles,
                         outputFiles |-> getCombinedList(config, targetId, "nextpnrOutputFiles",
                                            generatedOutputFiles, "defaultParse"),
                         target |-> target,
                         options |-> options,
                         steps |-> <<[id |-> "pnr", tool |-> tool,
                                      arguments |->
                                        getCombinedList(config, targetId, "nextpnrArguments",
                                            generatedArgs, "parseNextpnrArguments")]>>]]

----------------------------------------------------------------------------
(* SpecNextpnr: one target, the nextpnr options at both layers, the        *)
(* options resolver and the nextpnr generator                              *)

\* one selection per architecture, and the nexus device with packages inside
\* and outside the translation table
NextpnrTuples ==
    {<<"lattice", "ecp5", "lfe5u-12", "caBGA381">>, <<"lattice", "ice40", "lp8k", "cm225">>,
     <<"gowin", "gw1n", "gw1n-1", "QN48">>, <<"generic", "generic", "generic", "generic">>}
    \cup {<<"lattice", "nexus", "lifcl-40", package>> :
            package \in {"caBGA400", "QFN72", "cm225", "constructor"}}

Directories == {ABSENT, "out"}

NextpnrOptionLayers ==
    {[NoOptions EXCEPT !.placedSvg = placedSvg, !.routedSvg = routedSvg,
                       !.routedJson = routedJson] :
        placedSvg \in Flags \cup {ABSENT}, routedSvg \in Flags \cup {ABSENT},
        routedJson \in Flags \cup {ABSENT}}

InitNextpnr ==
    \E tuple \in NextpnrTuples, directory \in Directories,
       options \in NextpnrOptionLayers, defaultOptions \in NextpnrOptionLayers :
        Construct(<<>>, <<>>,
                  [defaults |-> None, defaultOptions |-> defaultOptions,
                   targets |-> <<DeviceTarget("default", tuple, directory, options)>>])

GetEffectiveOptions ==
    /\ WithinBounds
    /\ \E i \in Handles, workerId \in {"yosys", "nextpnr", "iverilog"} :
           Commit(getEffectiveOptions(This, i, workerId), "getEffectiveOptions",
                  [target |-> i, workerId |-> workerId])

GetNextpnrWorkerOptions ==
    /\ WithinBounds
    /\ \E targetId \in TargetIds :
           Commit(getNextpnrWorkerOptions(This, targetId), "getNextpnrWorkerOptions",
                  [targetId |-> targetId])

TargetSetConfigOption ==
    /\ WithinBounds
    /\ \E i \in Handles, key \in {"placedSvg", "routedSvg", "routedJson"}, flag \in Flags :
           Commit(setConfig(This, i, <<"nextpnr", "options", key>>, flag),
                  "setConfig", NoArgs)

NextNextpnr ==
    \/ GetEffectiveOptions
    \/ GetNextpnrWorkerOptions
    \/ TargetSetConfigOption

SpecNextpnr == InitNextpnr /\ [][NextNextpnr]_vars


\* C11: every field of the effective options is the target's value when the
\* target sets it, else the project defaults' value when set, else the built-in
\* default of the tool; resolving leaves the configuration unchanged and
\* resolving again gives the same result.
C11_OptionPrecedence ==
    [][(call'.op = "getEffectiveOptions" /\ call'.err = NoErr) =>
        LET i == call'.args.target
            workerId == call'.args.workerId
            target == configuration.targets[i]
            defaults == configuration.defaultOptions
            builtIn == CASE workerId = "yosys" -> DEFAULT_OPTIONS_yosys
                         [] workerId = "nextpnr" -> DEFAULT_OPTIONS_nextpnr
                         [] workerId = "iverilog" -> DEFAULT_OPTIONS_iverilog
            keys == CASE workerId = "yosys" -> YosysOptionKeys
                      [] workerId = "nextpnr" -> NextpnrOptionKeys
                      [] workerId = "iverilog" -> IVerilogOptionKeys
        IN  /\ DOMAIN call'.result = keys
            /\ \A key \in keys :
                   call'.result[key] =
                       IF Get(target, key) # ABSENT THEN target[key]
                       ELSE IF Get(defaults, key) # ABSENT THEN defaults[key]
                       ELSE IF key \in DOMAIN builtIn THEN builtIn[key]
                       ELSE UNDEFINED
            /\ configuration' = configuration
            /\ getEffectiveOptions(This', i, workerId).result = call'.result]_vars


\* nextpnr options resolved where the target overrides a project default and
\* a project default overrides a built-in default
C11_Witness ==
    /\ call.op = "getEffectiveOptions"
    /\ call.args.workerId = "nextpnr"
    /\ configuration.targets[call.args.target].placedSvg = "true"
    /\ configuration.defaultOptions.placedSvg = "false"
    /\ configuration.targets[call.args.target].routedSvg = ABSENT
    /\ configuration.defaultOptions.routedSvg = "true"
    /\ configuration.defaultOptions.routedJson = ABSENT
    /\ call.result.placedSvg = "true"
    /\ call.result.routedSvg = "true"
    /\ call.result.routedJson = "true"


\* C19: for a target of architecture nexus, nextpnr generation succeeds
\* exactly when the target's package is a key of the package translation
\* table; for any other package it fails with the unsupported-package error
\* and returns nothing.
C19_NexusPackageTable ==
    (/\ call.op = "getNextpnrWorkerOptions"
     /\ getTarget(configuration, call.args.targetId) # 0
     /\ configuration.targets[getTarget(configuration, call.args.targetId)].family = "nexus")
    => LET package == configuration.targets[
                          getTarget(configuration, call.args.targetId)].package
       IN  IF package \in {"WLCSP72", "QFN72", "csfBGA121", "caBGA256", "csfBGA289", "caBGA400"}
           THEN call.err = NoErr /\ Len(call.result.steps) = 1
           ELSE call.err = "UnsupportedPackage" /\ call.result = <<>>

\* C20: in a generated nextpnr result, the arguments after "--json <netlist>"
\* are the pairs --placed-svg, --routed-svg and --write with their files, in
\* this order, one pair for each enabled option and none for a disabled one,
\* and a pair's file is among the output files exactly when its option is
\* enabled.
C20_OptionalOutputs ==
    (call.op = "getNextpnrWorkerOptions" /\ call.err = NoErr) =>
        LET target == call.result.target
            options == call.result.options
            args == call.result.steps[1].arguments
            out == Range(call.result.outputFiles)
            json == CHOOSE k \in 1..Len(args) : args[k] = "--json"
            file(name) == IF target.directory = ABSENT THEN name
                          ELSE target.directory \o "/" \o name
            pair(key, flag, name) ==
                IF options[key] = "true" THEN <<flag, file(name)>> ELSE <<>>
        IN  /\ \E k \in 1..Len(args) : args[k] = "--json"
            /\ args[json + 1] = call.result.inputFiles[1]
            /\ SubSeq(args, json + 2, Len(args)) =
                   pair("placedSvg", "--placed-svg", "placed.svg")
                   \o pair("routedSvg", "--routed-svg", "routed.svg")
                   \o pair("routedJson", "--write", "routed.nextpnr.json")
            /\ \A flag \in {"--placed-svg", "--routed-svg", "--write"} :
                   \A k \in 1..Len(args) : args[k] = flag => k > json
            /\ (options.placedSvg = "true") <=> (file("placed.svg") \in out)
            /\ (options.routedSvg = "true") <=> (file("routed.svg") \in out)
            /\ (options.routedJson = "true") <=> (file("routed.nextpnr.json") \in out)

\* an ecp5 target with an output directory: the placed image and the routed
\* netlist are enabled, the routed image is not
C20_Witness ==
    /\ call.op = "getNextpnrWorkerOptions"
    /\ call.err = NoErr
    /\ call.result.target.directory = "out"
    /\ call.result.options.placedSvg = "true"
    /\ call.result.options.routedSvg = "false"
    /\ call.result.options.routedJson = "true"
    /\ call.result.steps[1].arguments =
           <<"--12k", "--package", "CABGA381", "--textcfg", "out/ecp5.config",
             "--json", "out/ecp5.json", "--placed-svg", "out/placed.svg",
             "--write", "out/routed.nextpnr.json">>
    /\ call.result.outputFiles =
           <<"out/ecp5.config", "out/placed.svg", "out/routed.nextpnr.json">>


----------------------------------------------------------------------------
(* Yosys, Icarus Verilog and flasher step generators                       *)
(* (yosys.ts, iverilog.ts, flasher.ts)                                     *)

GeneratorPaths == {"counter.v", "top.vhd", "tb.v"}

FILE_EXTENSIONS_VERILOG == {"v", "vh", "sv", "svh"}
FILE_EXTENSIONS_VHDL == {"vhd", "vhdl"}
FILE_EXTENSIONS_HDL == FILE_EXTENSIONS_VERILOG \cup FILE_EXTENSIONS_VHDL

\* path.extname(file).substring(1) on the paths of this model
Extension(file) ==
    CASE file \in {"alu.v", "counter.v", "tb.v", "a.v"} -> "v"
      [] file = "top.vhd" -> "vhd"
      [] OTHER -> ""

\* path.parse(file).name on the paths of this model
BaseName(file) ==
    CASE file = "alu.v" -> "alu"
      [] file = "counter.v" -> "counter"
      [] file = "tb.v" -> "tb"
      [] file = "a.v" -> "a"
      [] file = "top.vhd" -> "top"
      [] OTHER -> file

RECURSIVE Join(_, _)
\* Array.prototype.join
Join(list, separator) ==
    IF list = <<>> THEN ""
    ELSE IF Len(list) = 1 THEN list[1]
    ELSE list[1] \o separator \o Join(Tail(list), separator)

Quoted(file) == "\"" \o file \o "\""

\* paths of the files with one of the extensions, in list order
WithExtension(files, extensions) ==
    SelectSeq2(files, {file \in Range(files) : Extension(file) \in extensions})

\* paths of the project input files of a type with one of the extensions
InputPathsOf(files, types, extensions) ==
    LET kept == SelectSeq2(files, {file \in Range(files) :
                    file.type \in types /\ Extension(file.path) \in extensions})
    IN  [i \in 1..Len(kept) |-> kept[i].path]

\* mutant: the top level module is never required
getFileIngestCommands_noCheck(files, options) ==
    LET vhdlFiles == WithExtension(files, FILE_EXTENSIONS_VHDL)
        verilogFiles == WithExtension(files, FILE_EXTENSIONS_VERILOG)
    IN  [err |-> NoErr,
         commands |->
            (IF vhdlFiles # <<>>
             THEN <<"plugin -i ghdl",
                    "ghdl " \o Join(vhdlFiles, " ") \o " -e " \o options.topLevelModule>>
             ELSE <<>>)
            \o [i \in 1..Len(verilogFiles) |-> "read_verilog -sv " \o Quoted(verilogFiles[i])]
            \o <<"hierarchy -auto-top">>]

\* the result is the thrown error, or the commands
getFileIngestCommands(files, options) ==
    LET vhdlFiles == WithExtension(files, FILE_EXTENSIONS_VHDL)
        verilogFiles == WithExtension(files, FILE_EXTENSIONS_VERILOG)
    IN  IF vhdlFiles # <<>> /\ ~Truthy(options.topLevelModule)
        THEN [err |-> "MissingTopLevelModule", commands |-> <<>>]
        ELSE [err |-> NoErr,
              commands |->
                (IF vhdlFiles # <<>>
                 THEN <<"plugin -i ghdl",
                        "ghdl " \o Join(vhdlFiles, " ") \o " -e " \o options.topLevelModule>>
                 ELSE <<>>)
                \o [i \in 1..Len(verilogFiles) |->
                        "read_verilog -sv " \o Quoted(verilogFiles[i])]
                \o (IF Truthy(options.topLevelModule)
                    THEN <<"hierarchy -top " \o options.topLevelModule>>
                    ELSE <<"hierarchy -auto-top">>)]

getInputFiles(p, targetId) ==
    getCombinedGenerated(InputPathsOf(p.inputFiles, {"design"}, FILE_EXTENSIONS_HDL))

\* called after getTarget(configuration, targetId) has found the target
getOutputFiles(p, targetId, files) ==
    LET target == p.configuration.targets[getTarget(p.configuration, targetId)]
    IN  getCombinedGenerated([i \in 1..Len(files) |-> getTargetFile(target, files[i])])

getYosysRTLWorkerOptions(p, targetId) ==
    LET config == p.configuration
        t == getTarget(config, targetId)
    IN  IF t = 0 THEN Throw(p, "TargetNotFound")
        ELSE
        LET target == config.targets[t]
            options == getYosysOptions(config, targetId)
            files == getInputFiles(p, targetId)
            ingest == getFileIngestCommands(files, options)
            generatedCommands ==
                ingest.commands
                \o <<"proc;", "opt;", "memory -nomap;", "wreduce -memx;", "opt -full;",
                     "tee -q -o " \o Quoted(getTargetFile(target, "stats.yosys.json"))
                        \o " stat -json -width *;",
                     "write_json " \o Quoted(getTargetFile(target, "rtl.yosys.json")) \o ";",
                     "">>
        IN  IF ingest.err # NoErr THEN Throw(p, ingest.err)
            ELSE [p EXCEPT !.result =
                    [inputFiles |-> files,
                     outputFiles |-> getOutputFiles(p, targetId,
                                        <<"stats.yosys.json", "rtl.yosys.json">>),
                     target |-> target,
                     options |-> options,
                     steps |-> <<[id |-> "rtl", tool |-> "yosys", arguments |-> <<>>,
                                  commands |-> getCombinedGenerated(generatedCommands)]>>]]

\* mutant: the synth step reads the netlist from the project directory
getYosysSynthesisWorkerOptions_readsPlain(p, targetId) ==
    LET config == p.configuration
        t == getTarget(config, targetId)
    IN  IF t = 0 THEN Throw(p, "TargetNotFound")
        ELSE
        LET target == config.targets[t]
            options == getYosysOptions(config, targetId)
            files == getInputFiles(p, targetId)
            ingest == getFileIngestCommands(files, options)
            architecture == family(target)[1].architecture
        IN  IF ingest.err # NoErr THEN Throw(p, ingest.err)
            ELSE [p EXCEPT !.result =
                    [inputFiles |-> files,
                     outputFiles |-> getOutputFiles(p, targetId, <<architecture \o ".json">>),
                     target |-> target,
                     options |-> options,
                     steps |->
                        <<[id |-> "prepare", tool |-> "yosys", arguments |-> <<>>,
                           commands |-> ingest.commands \o <<"proc;", "opt;",
                                "write_json "
                                \o Quoted(getTargetFile(target, "presynth.yosys.json")) \o ";">>],
                          [id |-> "synth", tool |-> "yosys", arguments |-> <<>>,
                           commands |-> <<"read_json " \o Quoted("presynth.yosys.json")>>
                                \o (IF architecture = "generic"
                                    THEN <<"synth;", "write_json \"generic.json\";">>
                                    ELSE <<"synth_" \o architecture \o " -json "
                                           \o Quoted(architecture \o ".json") \o ";">>)]>>]]

getYosysSynthesisWorkerOptions(p, targetId) ==
    LET config == p.configuration
        t == getTarget(config, targetId)
    IN  IF t = 0 THEN Throw(p, "TargetNotFound")
        ELSE
        LET target == config.targets[t]
            options == getYosysOptions(config, targetId)
        IN  IF vendor(target) = None \/ family(target) = None THEN Throw(p, "TypeError")
            ELSE
            LET architecture == family(target)[1].architecture
                files == getInputFiles(p, targetId)
                ingest == getFileIngestCommands(files, options)
                generatedPrepareCommands ==
                    ingest.commands
                    \o <<"proc;", "opt;",
                         "write_json "
                            \o Quoted(getTargetFile(target, "presynth.yosys.json")) \o ";",
                         "">>
                generatedSynthCommands ==
                    <<"read_json " \o Quoted(getTargetFile(target, "presynth.yosys.json"))>>
                    \o (IF architecture = "generic"
                        THEN <<"synth;",
                               "write_json " \o Quoted(architecture \o ".json") \o ";">>
                        ELSE <<"synth_" \o architecture \o " -json "
                               \o Quoted(architecture \o ".json") \o ";">>)
                    \o <<"">>
            IN  IF ingest.err # NoErr THEN Throw(p, ingest.err)
                ELSE [p EXCEPT !.result =
                        [inputFiles |-> files,
                         outputFiles |-> getOutputFiles(p, targetId,
                                            <<architecture \o ".json">>),
                         target |-> target,
                         options |-> options,
                         steps |->
                            <<[id |-> "prepare", tool |-> "yosys", arguments |-> <<>>,
                               commands |-> getCombinedGenerated(generatedPrepareCommands)],
                              [id |-> "synth", tool |-> "yosys", arguments |-> <<>>,
                               commands |-> getCombinedGenerated(generatedSynthCommands)]>>]]


\* mutant: the first testbench file is used whatever the option says
SelectTestbench_ignoresOption(configured, files) ==
    LET allTestbenches == InputPathsOf(files, {"testbench"}, {Extension(file.path) :
                                                               file \in Range(files)})
    IN  IF allTestbenches = <<>> THEN UNDEFINED ELSE allTestbenches[1]

\* the testbench of a simulation: the configured one, else the first input
\* file marked as a testbench, else undefined
SelectTestbench(configured, files) ==
    LET allTestbenches == InputPathsOf(files, {"testbench"}, {Extension(file.path) :
                                                               file \in Range(files)})
    IN  IF Truthy(configured) THEN configured
        ELSE IF allTestbenches = <<>> THEN UNDEFINED
        ELSE allTestbenches[1]

\* mutant: the testbench is not passed to the compiler
CompileArgs_noTestbench(compiledFile, designFiles, testbenchFile) ==
    <<"-o", compiledFile>> \o designFiles

CompileArgs(compiledFile, designFiles, testbenchFile) ==
    <<"-o", compiledFile>> \o designFiles \o <<testbenchFile>>

getIVerilogWorkerOptions(p, targetId) ==
    LET config == p.configuration
        t == getTarget(config, targetId)
    IN  IF t = 0 THEN Throw(p, "TargetNotFound")
        ELSE
        LET target == config.targets[t]
            options == getIVerilogOptions(config, targetId)
            designFiles == InputPathsOf(p.inputFiles, {"design"}, FILE_EXTENSIONS_VERILOG)
            testbenchFile == SelectTestbench(options.testbenchFile, p.inputFiles)
            compiledFile == getTargetFile(target, "simulator.vvp")
            generatedInputFiles == designFiles \o <<testbenchFile>>
            generatedOutputFiles == <<compiledFile, BaseName(testbenchFile) \o ".vcd">>
            generatedCompileArgs == CompileArgs(compiledFile, designFiles, testbenchFile)
        IN  IF testbenchFile = UNDEFINED THEN Throw(p, "MissingTestbench")
            ELSE [p EXCEPT !.result =
                    [inputFiles |-> getCombinedGenerated(generatedInputFiles),
                     outputFiles |-> getCombinedGenerated(generatedOutputFiles),
                     target |-> target,
                     options |-> options,
                     steps |-> <<[id |-> "iverilog", tool |-> "iverilog",
                                  arguments |-> getCombinedGenerated(generatedCompileArgs)],
                                 [id |-> "vvp", tool |-> "vvp",
                                  arguments |-> <<compiledFile>>]>>]]

\* mutant: an architecture without a packer gets the flash step alone
generateFlasherWorkerOptions_partial(config, targetId) ==
    LET target == config.targets[getTarget(config, targetId)]
        options == getOptions(config, targetId, {"board"}, [board |-> UNDEFINED])
        architecture == family(target)[1].architecture
        bitstreamFile == getTargetFile(target, architecture \o
                            (IF architecture = "ecp5" THEN ".config" ELSE ".asc"))
        packedFile == getTargetFile(target, architecture \o
                            (IF architecture = "ecp5" THEN ".bit" ELSE ".bin"))
        packer == IF architecture = "ecp5" THEN "ecppack" ELSE "icepack"
        flasherArgs == (IF Truthy(options.board) THEN <<"-b", options.board>> ELSE <<>>)
                       \o <<packedFile>>
    IN  [err |-> NoErr,
         inputFiles |-> <<bitstreamFile>>,
         outputFiles |-> <<packedFile>>,
         target |-> target,
         options |-> options,
         steps |-> (IF architecture \in {"ecp5", "ice40"}
                    THEN <<[tool |-> packer, arguments |-> <<bitstreamFile, packedFile>>]>>
                    ELSE <<>>)
                   \o <<[tool |-> "openFPGALoader", arguments |-> flasherArgs]>>]

\* mutant: the packed file is flashed without a pack step
generateFlasherWorkerOptions_noPack(config, targetId) ==
    LET target == config.targets[getTarget(config, targetId)]
        options == getOptions(config, targetId, {"board"}, [board |-> UNDEFINED])
        architecture == family(target)[1].architecture
        packedFile == getTargetFile(target, architecture \o
                            (IF architecture = "ecp5" THEN ".bit" ELSE ".bin"))
    IN  IF architecture \notin {"ecp5", "ice40"}
        THEN [err |-> "UnsupportedArchitecture"]
        ELSE [err |-> NoErr,
              inputFiles |-> <<packedFile>>,
              outputFiles |-> <<>>,
              target |-> target,
              options |-> options,
              steps |-> <<[tool |-> "openFPGALoader",
                           arguments |->
                              (IF Truthy(options.board) THEN <<"-b", options.board>>
                               ELSE <<>>) \o <<packedFile>>]>>]

generateFlasherWorkerOptions(config, targetId) ==
    LET target == config.targets[getTarget(config, targetId)]
        options == getOptions(config, targetId, {"board"}, [board |-> UNDEFINED])
        architecture == family(target)[1].architecture
        bitstreamFile == getTargetFile(target, architecture \o
                            (IF architecture = "ecp5" THEN ".config" ELSE ".asc"))
        packedFile == getTargetFile(target, architecture \o
                            (IF architecture = "ecp5" THEN ".bit" ELSE ".bin"))
        packer == IF architecture = "ecp5" THEN "ecppack" ELSE "icepack"
        flasherArgs == (IF Truthy(options.board) THEN <<"-b", options.board>> ELSE <<>>)
                       \o <<packedFile>>
    IN  IF architecture \notin {"ecp5", "ice40"}
        THEN [err |-> "UnsupportedArchitecture"]
        ELSE [err |-> NoErr,
              inputFiles |-> <<bitstreamFile>>,
              outputFiles |-> <<packedFile>>,
              target |-> target,
              options |-> options,
              steps |-> <<[tool |-> packer, arguments |-> <<bitstreamFile, packedFile>>],
                          [tool |-> "openFPGALoader", arguments |-> flasherArgs]>>]

\* mutant: the generator registers the packed file as an output file of the target
getFlasherWorkerOptions_registers(p, targetId) ==
    LET t == getTarget(p.configuration, targetId)
    IN  IF t = 0 THEN Throw(p, "TargetNotFound")
        ELSE [p EXCEPT !.outputFiles =
                <<[path |-> "packed", targetId |-> targetId, stale |-> FALSE]>>]

getFlasherWorkerOptions(p, targetId) ==
    LET config == p.configuration
        t == getTarget(config, targetId)
    IN  IF t = 0 THEN Throw(p, "TargetNotFound")
        ELSE IF vendor(config.targets[t]) = None \/ family(config.targets[t]) = None
        THEN Throw(p, "TypeError")
        ELSE
        LET generated == generateFlasherWorkerOptions(config, targetId)
        IN  IF generated.err # NoErr THEN Throw(p, generated.err)
            ELSE [p EXCEPT !.result =
                    [inputFiles |-> getCombinedGenerated(generated.inputFiles),
                     outputFiles |-> getCombinedGenerated(generated.outputFiles),
                     target |-> generated.target,
                     options |-> generated.options,
                     steps |-> [i \in 1..Len(generated.steps) |->
                                  [tool |-> generated.steps[i].tool,
                                   arguments |->
                                      getCombinedGenerated(generated.steps[i].arguments)]]]]


----------------------------------------------------------------------------
(* SpecGenerators: a project with input files and one target, the five     *)
(* step generators and the calls that change what they read               *)

MaxGeneratorFiles == 2

\* input file lists without a repeated path
GeneratorFileLists ==
    {files \in SeqsUpTo({InputFileState(path, type) :
                            path \in GeneratorPaths, type \in FileTypes}, MaxGeneratorFiles) :
        \A i, j \in 1..Len(files) : i # j => files[i].path # files[j].path}

\* an architecture with a packer, the generic one and one without a packer
GeneratorTuples ==
    {<<"lattice", "ecp5", "lfe5u-12", "caBGA381">>, <<"gowin", "gw1n", "gw1n-1", "QN48">>,
     <<"generic", "generic", "generic", "generic">>}

InitGenerators ==
    \E files \in GeneratorFileLists, tuple \in GeneratorTuples, directory \in Directories,
       topLevelModule \in {ABSENT, "top"}, defaultTopLevelModule \in {ABSENT, "main"},
       testbenchFile \in {ABSENT, "tb.v"} :
        Construct(files, <<>>,
                  [defaults |-> None,
                   defaultOptions |-> [NoOptions EXCEPT !.topLevelModule = defaultTopLevelModule],
                   targets |-> <<DeviceTarget("default", tuple, directory,
                                    [NoOptions EXCEPT !.topLevelModule = topLevelModule,
                                                      !.testbenchFile = testbenchFile])>>])

GetYosysRTLWorkerOptions ==
    /\ WithinBounds
    /\ \E targetId \in TargetIds :
           Commit(getYosysRTLWorkerOptions(This, targetId), "getYosysRTLWorkerOptions",
                  [targetId |-> targetId])

GetYosysSynthesisWorkerOptions ==
    /\ WithinBounds
    /\ \E targetId \in TargetIds :
           Commit(getYosysSynthesisWorkerOptions(This, targetId),
                  "getYosysSynthesisWorkerOptions", [targetId |-> targetId])

GetIVerilogWorkerOptions ==
    /\ WithinBounds
    /\ \E targetId \in TargetIds :
           Commit(getIVerilogWorkerOptions(This, targetId), "getIVerilogWorkerOptions",
                  [targetId |-> targetId])

GetFlasherWorkerOptions ==
    /\ WithinBounds
    /\ \E targetId \in TargetIds :
           Commit(getFlasherWorkerOptions(This, targetId), "getFlasherWorkerOptions",
                  [targetId |-> targetId])

GeneratorOps ==
    {"getYosysRTLWorkerOptions", "getYosysSynthesisWorkerOptions", "getNextpnrWorkerOptions",
     "getIVerilogWorkerOptions", "getFlasherWorkerOptions"}

NextGenerators ==
    \/ GetYosysRTLWorkerOptions
    \/ GetYosysSynthesisWorkerOptions
    \/ GetNextpnrWorkerOptions
    \/ GetIVerilogWorkerOptions
    \/ GetFlasherWorkerOptions
    \/ SetTopLevelModule
    \/ SetTestbenchPath(GeneratorPaths)
    \/ SetInputFileType(GeneratorPaths)

SpecGenerators == InitGenerators /\ [][NextGenerators]_vars


\* C13: a call of one of the five step generators, whether it returns or
\* throws, leaves the input files, the output files, the configuration and
\* the pending events unchanged and delivers no notification, and the same
\* call on the resulting state gives the same outcome.
C13_GeneratorsReadOnly ==
    [][call'.op \in GeneratorOps =>
        LET targetId == call'.args.targetId
            again == CASE call'.op = "getYosysRTLWorkerOptions" ->
                            getYosysRTLWorkerOptions(This', targetId)
                       [] call'.op = "getYosysSynthesisWorkerOptions" ->
                            getYosysSynthesisWorkerOptions(This', targetId)
                       [] call'.op = "getNextpnrWorkerOptions" ->
                            getNextpnrWorkerOptions(This', targetId)
                       [] call'.op = "getIVerilogWorkerOptions" ->
                            getIVerilogWorkerOptions(This', targetId)
                       [] call'.op = "getFlasherWorkerOptions" ->
                            getFlasherWorkerOptions(This', targetId)
        IN  /\ inputFiles' = inputFiles
            /\ outputFiles' = outputFiles
            /\ configuration' = configuration
            /\ batchedEvents' = batchedEvents
            /\ batchCounter' = batchCounter
            /\ call'.delivered = <<>>
            /\ call'.raised = {}
            /\ again.err = call'.err
            /\ again.result = call'.result]_vars

\* a generator has thrown on a project that has input files and a target
C13_Witness ==
    /\ call.op = "getYosysSynthesisWorkerOptions"
    /\ call.err = "MissingTopLevelModule"
    /\ call.delivered = <<>>
    /\ Len(inputFiles) = 2
    /\ Len(configuration.targets) = 1


\* C14: for a target of a non-generic architecture A whose design files are
\* all Verilog, the last command of the synth step is the synth_A command and
\* the path after -json is the output file the generator reports.
C14_SynthWritesOutputFile ==
    (/\ call.op = "getYosysSynthesisWorkerOptions"
     /\ call.err = NoErr
     /\ family(call.result.target)[1].architecture # "generic"
     /\ \A i \in 1..Len(inputFiles) :
            inputFiles[i].type = "design" =>
                Extension(inputFiles[i].path) \in FILE_EXTENSIONS_VERILOG)
    => LET commands == call.result.steps[2].commands
           architecture == family(call.result.target)[1].architecture
       IN  /\ call.result.steps[2].id = "synth"
           /\ Len(call.result.outputFiles) = 1
           /\ commands[Len(commands)] =
                  "synth_" \o architecture \o " -json "
                  \o Quoted(call.result.outputFiles[1]) \o ";"


\* C15: a successful synthesis generation has exactly the steps prepare and
\* synth, in this order; the file the first synth command reads is the file
\* the write_json command that ends prepare writes; the synth step runs
\* "synth" for the generic architecture and "synth_<architecture>" otherwise.
C15_PrepareThenSynth ==
    (call.op = "getYosysSynthesisWorkerOptions" /\ call.err = NoErr) =>
        LET steps == call.result.steps
            prepare == steps[1].commands
            synth == steps[2].commands
            architecture == family(call.result.target)[1].architecture
            in(name) == {name} \cup {directory \o "/" \o name :
                                        directory \in Directories \ {ABSENT}}
        IN  /\ Len(steps) = 2
            /\ steps[1].id = "prepare"
            /\ steps[2].id = "synth"
            /\ \E file \in in("presynth.yosys.json") :
                   /\ prepare[Len(prepare)] = "write_json " \o Quoted(file) \o ";"
                   /\ \A i \in 1..(Len(prepare) - 1) :
                          prepare[i] # "write_json " \o Quoted(file) \o ";"
                   /\ synth[1] = "read_json " \o Quoted(file)
            /\ IF architecture = "generic"
               THEN synth[2] = "synth;"
               ELSE \E file \in in(architecture \o ".json") :
                        synth[2] = "synth_" \o architecture \o " -json " \o Quoted(file) \o ";"

\* synthesis generated for a gowin target with an output directory
C15_Witness ==
    /\ call.op = "getYosysSynthesisWorkerOptions"
    /\ call.err = NoErr
    /\ call.result.target.directory = "out"
    /\ call.result.inputFiles = <<"counter.v">>
    /\ call.result.steps[1].commands =
           <<"read_verilog -sv \"counter.v\"", "hierarchy -auto-top", "proc;", "opt;",
             "write_json \"out/presynth.yosys.json\";">>
    /\ call.result.steps[2].commands =
           <<"read_json \"out/presynth.yosys.json\"", "synth_gowin -json \"gowin.json\";">>


\* C16: RTL and synthesis generation for an existing target fail with the
\* missing-top-level-module error and return nothing when a design file is
\* VHDL and no layer sets topLevelModule; otherwise they succeed and the
\* ingestion commands (the commands before "proc;") end with
\* "hierarchy -top <module>" when topLevelModule is set and with
\* "hierarchy -auto-top" when it is not.
C16_TopLevelModule ==
    (/\ call.op \in {"getYosysRTLWorkerOptions", "getYosysSynthesisWorkerOptions"}
     /\ getTarget(configuration, call.args.targetId) # 0)
    => LET target == configuration.targets[getTarget(configuration, call.args.targetId)]
           module == IF target.topLevelModule # ABSENT THEN target.topLevelModule
                     ELSE configuration.defaultOptions.topLevelModule
           hasVhdl == \E i \in 1..Len(inputFiles) :
                          /\ inputFiles[i].type = "design"
                          /\ Extension(inputFiles[i].path) \in FILE_EXTENSIONS_VHDL
           commands == call.result.steps[1].commands
           proc == CHOOSE k \in 1..Len(commands) : commands[k] = "proc;"
       IN  IF module = ABSENT /\ hasVhdl
           THEN call.err = "MissingTopLevelModule" /\ call.result = <<>>
           ELSE /\ call.err = NoErr
                /\ \E k \in 2..Len(commands) : commands[k] = "proc;"
                /\ commands[proc - 1] =
                       IF module = ABSENT THEN "hierarchy -auto-top"
                       ELSE "hierarchy -top " \o module

\* synthesis has failed for a project with a VHDL and a Verilog design file
\* and no top level module at the target or in the project defaults
C16_Witness ==
    /\ call.op = "getYosysSynthesisWorkerOptions"
    /\ call.err = "MissingTopLevelModule"
    /\ inputFiles = <<[path |-> "counter.v", type |-> "design"],
                      [path |-> "top.vhd", type |-> "design"]>>
    /\ configuration.targets[1].topLevelModule = ABSENT
    /\ configuration.defaultOptions.topLevelModule = ABSENT


\* C17: iverilog generation for an existing target uses the configured
\* testbenchFile when one is set; otherwise the first input file of type
\* testbench in project order; with neither it fails with the
\* missing-testbench error and returns nothing.  The testbench used is the
\* last input file and the last compile argument of the result.
C17_TestbenchResolution ==
    (/\ call.op = "getIVerilogWorkerOptions"
     /\ getTarget(configuration, call.args.targetId) # 0)
    => LET target == configuration.targets[getTarget(configuration, call.args.targetId)]
           configured == IF target.testbenchFile # ABSENT THEN target.testbenchFile
                         ELSE configuration.defaultOptions.testbenchFile
           testbenches == {i \in 1..Len(inputFiles) : inputFiles[i].type = "testbench"}
           first == CHOOSE i \in testbenches : \A j \in testbenches : i <= j
           args == call.result.steps[1].arguments
           used == args[Len(args)]
       IN  IF configured \notin {ABSENT, UNDEFINED}
           THEN call.err = NoErr /\ used = configured
                /\ call.result.inputFiles[Len(call.result.inputFiles)] = configured
           ELSE IF testbenches # {}
           THEN call.err = NoErr /\ used = inputFiles[first].path
                /\ call.result.inputFiles[Len(call.result.inputFiles)] = inputFiles[first].path
           ELSE call.err = "MissingTestbench" /\ call.result = <<>>

\* no testbench is configured and the project has two testbench files: the
\* first one in project order is used
C17_Witness ==
    /\ call.op = "getIVerilogWorkerOptions"
    /\ call.err = NoErr
    /\ configuration.targets[1].testbenchFile \in {ABSENT, UNDEFINED}
    /\ inputFiles = <<[path |-> "top.vhd", type |-> "testbench"],
                      [path |-> "tb.v", type |-> "testbench"]>>
    /\ call.result.steps[1].arguments[Len(call.result.steps[1].arguments)] = "top.vhd"


----------------------------------------------------------------------------
(* SpecFlasher: one target of each architecture of the catalog, the board  *)
(* option at both layers, and the generators of the synthesis, place and   *)
(* route and flashing pipelines                                            *)

\* one selection per architecture
FlasherTuples ==
    {<<"lattice", "ecp5", "lfe5u-12", "caBGA381">>, <<"lattice", "ice40", "lp8k", "cm225">>,
     <<"lattice", "nexus", "lifcl-40", "caBGA400">>, <<"lattice", "machxo2", "xo2-640", "QFN48">>,
     <<"gowin", "gw1n", "gw1n-1", "QN48">>, <<"generic", "generic", "generic", "generic">>}

Boards == {"ice40_generic", "ulx3s"}

InitFlasher ==
    \E tuple \in FlasherTuples, directory \in Directories,
       board \in Boards \cup {ABSENT}, defaultBoard \in Boards \cup {ABSENT},
       routedJson \in Flags \cup {ABSENT} :
        Construct(<<>>, <<>>,
                  [defaults |-> None,
                   defaultOptions |-> [board |-> defaultBoard] @@ NoOptions,
                   targets |-> <<[board |-> board]
                                 @@ DeviceTarget("default", tuple, directory,
                                        [NoOptions EXCEPT !.routedJson = routedJson])>>])

TargetSetConfigBoard ==
    /\ WithinBounds
    /\ \E i \in Handles, board \in Boards \cup {UNDEFINED} :
           Commit(setConfig(This, i, <<"flasher", "options", "board">>, board),
                  "setConfig", NoArgs)

NextFlasher ==
    \/ GetFlasherWorkerOptions
    \/ GetNextpnrWorkerOptions
    \/ GetYosysSynthesisWorkerOptions
    \/ TargetSetConfigBoard

SpecFlasher == InitFlasher /\ [][NextFlasher]_vars


\* C21: for an ice40 or ecp5 target the flasher pipeline is exactly a pack
\* step (icepack on the ASCII bitstream, ecppack on the textcfg file) whose
\* arguments are the bitstream file then the packed file, followed by an
\* openFPGALoader step whose arguments are the packed file, preceded by
\* "-b <board>" exactly when the effective board option is set.
C21_PackThenFlash ==
    (/\ call.op = "getFlasherWorkerOptions"
     /\ getTarget(configuration, call.args.targetId) # 0
     /\ configuration.targets[getTarget(configuration, call.args.targetId)].family
            \in {"ice40", "ecp5"})
    => LET target == configuration.targets[getTarget(configuration, call.args.targetId)]
           ice40 == target.family = "ice40"
           board == IF target.board # ABSENT THEN target.board
                    ELSE configuration.defaultOptions.board
           in(name) == IF target.directory = ABSENT THEN name
                       ELSE target.directory \o "/" \o name
           bitstream == in(IF ice40 THEN "ice40.asc" ELSE "ecp5.config")
           packed == in(IF ice40 THEN "ice40.bin" ELSE "ecp5.bit")
       IN  /\ call.err = NoErr
           /\ call.result.steps =
                  <<[tool |-> IF ice40 THEN "icepack" ELSE "ecppack",
                     arguments |-> <<bitstream, packed>>],
                    [tool |-> "openFPGALoader",
                     arguments |-> IF board \in {ABSENT, UNDEFINED} THEN <<packed>>
                                   ELSE <<"-b", board, packed>>]>>

\* an ice40 target with an output directory takes its board from the project
\* defaults
C21_Witness ==
    /\ call.op = "getFlasherWorkerOptions"
    /\ call.err = NoErr
    /\ configuration.targets[1].board = ABSENT
    /\ call.result.steps =
           <<[tool |-> "icepack", arguments |-> <<"out/ice40.asc", "out/ice40.bin">>],
             [tool |-> "openFPGALoader",
              arguments |-> <<"-b", "ice40_generic", "out/ice40.bin">>]>>

\* C22: flasher generation for a target whose architecture is not ecp5 or
\* ice40, and nextpnr generation for a target whose architecture is not ecp5,
\* ice40, gowin, nexus or generic, fail with the unsupported-architecture
\* error and return nothing.
C22_UnsupportedArchitecture ==
    (/\ call.op \in {"getFlasherWorkerOptions", "getNextpnrWorkerOptions"}
     /\ getTarget(configuration, call.args.targetId) # 0)
    => LET target == configuration.targets[getTarget(configuration, call.args.targetId)]
           architecture == family(target)[1].architecture
           supported == IF call.op = "getFlasherWorkerOptions" THEN {"ecp5", "ice40"}
                        ELSE {"ecp5", "ice40", "gowin", "nexus", "generic"}
       IN  architecture \notin supported =>
               call.err = "UnsupportedArchitecture" /\ call.result = <<>>

\* place and route has been requested for a machxo2 target
C22_Witness ==
    /\ call.op = "getNextpnrWorkerOptions"
    /\ call.err = "UnsupportedArchitecture"
    /\ call.result = <<>>
    /\ configuration.targets[1].family = "machxo2"


\* C28: when place and route is generated right after synthesis for the same
\* target, the path after "--json" is the path the last synth command writes;
\* when the flasher is generated right after place and route, the input file
\* of its pack step is the file place and route writes after "--textcfg"
\* (ecp5) or "--asc" (ice40).
C28_FilesHandedOver ==
    [][(/\ call.err = NoErr
        /\ call'.err = NoErr
        /\ call.op \in GeneratorOps
        /\ call'.op \in GeneratorOps
        /\ call.args.targetId = call'.args.targetId) =>
        LET architecture == family(call.result.target)[1].architecture
            after(args, flag) == args[1 + CHOOSE k \in 1..Len(args) : args[k] = flag]
        IN  /\ (call.op = "getYosysSynthesisWorkerOptions"
                    /\ call'.op = "getNextpnrWorkerOptions")
               => LET synth == call.result.steps[2].commands
                      netlist == after(call'.result.steps[1].arguments, "--json")
                  IN  synth[Len(synth)] =
                          IF architecture = "generic"
                          THEN "write_json " \o Quoted(netlist) \o ";"
                          ELSE "synth_" \o architecture \o " -json " \o Quoted(netlist) \o ";"
            /\ (call.op = "getNextpnrWorkerOptions"
                    /\ call'.op = "getFlasherWorkerOptions")
               => call'.result.steps[1].arguments[1] =
                      after(call.result.steps[1].arguments,
                            IF architecture = "ecp5" THEN "--textcfg" ELSE "--asc")]_vars


----------------------------------------------------------------------------
(* SpecOverrides: the nextpnr generator for a target whose input files and *)
(* arguments have value lists at the target and in the project defaults    *)

RawInputFilesLists ==
    {None} \cup {Some(RawValueListTarget(useGenerated, useDefault, values)) :
                    useGenerated \in Flags \cup {UNDEFINED},
                    useDefault \in {UNDEFINED, "false"},
                    values \in {None, Some(<<"my.json">>)}}

RawArgumentsLists ==
    {None} \cup {Some(RawValueListTarget(useGenerated, UNDEFINED, values)) :
                    useGenerated \in {UNDEFINED, "false"},
                    values \in {None, Some(<<"--seed 1">>)}}

RawDefaultInputFilesLists ==
    {None, Some(RawValueList(UNDEFINED, Some(<<"lib.json">>))),
     Some(RawValueList("false", None))}

RawDefaultArgumentsLists == {None, Some(RawValueList(UNDEFINED, Some(<<"-q">>)))}

\* the schema on an optional target-level and default-level block
ParsedTargetList(raw) == IF raw = None THEN None ELSE Some(schemaValueListTarget(raw[1]))
ParsedDefaultList(raw) == IF raw = None THEN None ELSE Some(schemaValueList(raw[1]))

InitOverrides ==
    \E tuple \in {<<"lattice", "ecp5", "lfe5u-12", "caBGA381">>,
                  <<"generic", "generic", "generic", "generic">>},
       directory \in Directories, routedJson \in {ABSENT, "false"},
       files \in RawInputFilesLists, arguments \in RawArgumentsLists,
       defaultFiles \in RawDefaultInputFilesLists,
       defaultArguments \in RawDefaultArgumentsLists :
        Construct(<<>>, <<>>,
                  [defaults |-> None,
                   defaultOptions |-> NoOptions,
                   defaultLists |-> [nextpnrInputFiles |-> ParsedDefaultList(defaultFiles),
                                     nextpnrOutputFiles |-> None,
                                     nextpnrArguments |-> ParsedDefaultList(defaultArguments)],
                   targets |-> <<[nextpnrInputFiles |-> ParsedTargetList(files),
                                  nextpnrArguments |-> ParsedTargetList(arguments)]
                                 @@ DeviceTarget("default", tuple, directory,
                                        [NoOptions EXCEPT !.routedJson = routedJson])>>])

TargetUpdateLists ==
    /\ WithinBounds
    /\ \E i \in Handles :
        \/ \E files \in RawInputFilesLists :
               Commit(update(This, i, [id |-> UNDEFINED, nextpnrInputFiles |-> files]),
                      "update", NoArgs)
        \/ \E arguments \in RawArgumentsLists :
               Commit(update(This, i, [id |-> UNDEFINED, nextpnrArguments |-> arguments]),
                      "update", NoArgs)

NextOverrides ==
    \/ GetNextpnrWorkerOptions
    \/ TargetUpdateLists

SpecOverrides == InitOverrides /\ [][NextOverrides]_vars


\* C30: in a nextpnr result whose arguments keep the generated list, whatever
\* the value lists of the input files and of the arguments say, "--json" is
\* followed by a netlist file path.
C30_NetlistFollowsJson ==
    (/\ call.op = "getNextpnrWorkerOptions"
     /\ call.err = NoErr
     /\ resolveUseGenerated(configuration.defaultLists.nextpnrArguments,
                            call.result.target.nextpnrArguments))
    => LET args == call.result.steps[1].arguments
           json == CHOOSE k \in 1..Len(args) : args[k] = "--json"
       IN  /\ \E k \in 1..Len(args) : args[k] = "--json"
           /\ json < Len(args)
           /\ args[json + 1] \in
                  {"ecp5.json", "out/ecp5.json", "generic.json", "out/generic.json",
                   "my.json", "lib.json"}


----------------------------------------------------------------------------
(* The command line interface (cli/index.ts): the loop that executes the   *)
(* steps of a generated pipeline.  The process is the record cli: pc is    *)
(* the statement it is at, script the content of design.ys, trace what it  *)
(* has done to the file system and to the tools.                           *)

Event(c, event, tool, arguments) ==
    [event |-> event, step |-> c.step, tool |-> tool, arguments |-> arguments,
     data |-> IF c.script = None THEN ABSENT ELSE c.script[1]]

\* the first statement of the loop body for the step the process is at
cliLoopBody(c) ==
    [c EXCEPT !.pc = IF c.command = "yosys" THEN "writeFile" ELSE "executeTool"]

\* the for loop advances, or the process ends after the last step
cliNextStep(c) ==
    IF c.step = Len(c.steps) THEN [c EXCEPT !.pc = "exited"]
    ELSE cliLoopBody([c EXCEPT !.step = @ + 1])

\* the worker options have been generated (or the generator has thrown)
cliGenerate(c, command, shouldExecute, generated) ==
    IF generated.err # NoErr \/ ~shouldExecute
    THEN [c EXCEPT !.pc = "exited", !.command = command]
    ELSE cliNextStep([c EXCEPT !.command = command, !.steps = generated.result.steps])

\* await writeFile(designFilePath, step.commands.concat(['']).join('\n'))
cliWriteFile(c) ==
    LET written == [c EXCEPT !.script =
                        Some(Join(c.steps[c.step].commands \o <<"">>, "\n"))]
    IN  [written EXCEPT !.pc = "executeTool",
                        !.trace = Append(@, Event(written, "writeFile", "", <<>>))]

\* executeTool(step.tool, ...) starts the tool
cliExecuteTool(c) ==
    [c EXCEPT !.pc = "running",
              !.trace = Append(@, Event(c, "executeTool", c.steps[c.step].tool,
                                  IF c.command = "yosys" THEN <<"design.ys">>
                                  ELSE c.steps[c.step].arguments))]

\* the promise of executeTool: resolved when the tool has completed, rejected
\* when it has failed
executeTool(ok) == IF ok THEN "completed" ELSE "failed"

\* mutant: a tool that fails does not end the loop
cliToolExit_ignoresFailure(c, ok) ==
    LET exited == [c EXCEPT !.trace = Append(@, Event(c, executeTool(ok),
                                                 c.steps[c.step].tool, <<>>))]
    IN  IF c.command = "yosys" THEN [exited EXCEPT !.pc = "unlink"]
        ELSE cliNextStep(exited)

\* await executeTool(...) returns when the tool has completed, or throws
cliToolExit(c, ok) ==
    LET exited == [c EXCEPT !.trace = Append(@, Event(c, executeTool(ok),
                                                 c.steps[c.step].tool, <<>>))]
    IN  IF executeTool(ok) = "failed" THEN [exited EXCEPT !.pc = "exited"]
        ELSE IF c.command = "yosys" THEN [exited EXCEPT !.pc = "unlink"]
        ELSE cliNextStep(exited)

\* await unlink(designFilePath)
cliUnlink(c) == cliNextStep([c EXCEPT !.script = None])

ProjectUnchanged ==
    UNCHANGED <<inputFiles, outputFiles, configuration, batchedEvents, batchCounter, call>>

CliGenerate ==
    /\ cli.pc = "idle"
    /\ \E command \in {"yosys", "nextpnr"}, shouldExecute \in BOOLEAN, targetId \in TargetIds :
           cli' = cliGenerate(cli, command, shouldExecute,
                      IF command = "yosys" THEN getYosysSynthesisWorkerOptions(This, targetId)
                      ELSE getNextpnrWorkerOptions(This, targetId))
    /\ ProjectUnchanged

CliWriteFile ==
    /\ cli.pc = "writeFile"
    /\ cli' = cliWriteFile(cli)
    /\ ProjectUnchanged

CliExecuteTool ==
    /\ cli.pc = "executeTool"
    /\ cli' = cliExecuteTool(cli)
    /\ ProjectUnchanged

CliToolExit ==
    /\ cli.pc = "running"
    /\ \E ok \in BOOLEAN : cli' = cliToolExit(cli, ok)
    /\ ProjectUnchanged

CliUnlink ==
    /\ cli.pc = "unlink"
    /\ cli' = cliUnlink(cli)
    /\ ProjectUnchanged

NextCli ==
    \/ CliGenerate
    \/ CliWriteFile
    \/ CliExecuteTool
    \/ CliToolExit
    \/ CliUnlink

SpecCli == InitFlasher /\ [][NextCli]_vars

----------------------------------------------------------------------------
(* SpecInputs: the input files of a project with two paths, and the        *)
(* testbench a target is configured with                                   *)

InitInputs ==
    \E inFiles \in PersistedInputFiles(InputPaths), config \in PersistedConfigurations :
        Construct(inFiles, <<>>, config)

NextInputs ==
    \/ AddInputFiles(InputPaths)
    \/ RemoveInputFiles(InputPaths)
    \/ SetInputFileType(InputPaths)
    \/ SetTestbenchPath(InputPaths)

SpecInputs == InitInputs /\ [][NextInputs]_vars

\* C24: no two input files of the project have the same path, whatever has
\* been added (a path twice in one call, or a path that was already there,
\* with the same or another type), removed or retyped.
C24_PathIsUniqueKey ==
    \A i, j \in 1..Len(inputFiles) : i # j => inputFiles[i].path # inputFiles[j].path

\* addInputFiles has been called with a path twice, under two types, one of
\* them the type the file had already, and the project holds both paths
C24_Witness ==
    /\ call.op = "addInputFiles"
    /\ call.err = NoErr
    /\ Len(call.args.files) = 2
    /\ call.args.files[1].path = call.args.files[2].path
    /\ call.args.files[1].type # call.args.files[2].type
    /\ Len(inputFiles) = 2
    /\ \E i \in 1..2 : /\ inputFiles[i].path = call.args.files[1].path
                       /\ inputFiles[i].type = call.args.files[2].type


\* the entries of the output files that have the path
EntriesOf(files, path) == {i \in 1..Len(files) : files[i].path = path}

\* C25: a call of addOutputFiles that names a target id no target has fails
\* with the invalid-target error; any other call succeeds, and after it every
\* path of the call has exactly one entry, which is not stale and belongs to
\* the target the call gave for the path (the last one, when the call names
\* the path more than once), whether or not the path was registered before.
C25_AddOutputFiles ==
    [][call'.op = "addOutputFiles" =>
        LET files == call'.args.files
            Valid(id) == \E i \in Handles : Targets[i].id = id
            Last(path) == CHOOSE k \in 1..Len(files) :
                              /\ files[k].path = path
                              /\ \A l \in (k + 1)..Len(files) : files[l].path # path
        IN  IF \E k \in 1..Len(files) : ~Valid(files[k].targetId)
            THEN call'.err = "InvalidTargetId"
            ELSE /\ call'.err = NoErr
                 /\ \A k \in 1..Len(files) :
                        /\ Cardinality(EntriesOf(outputFiles', files[k].path)) = 1
                        /\ \A i \in EntriesOf(outputFiles', files[k].path) :
                               /\ outputFiles'[i].stale = FALSE
                               /\ outputFiles'[i].targetId = files[Last(files[k].path)].targetId
                 /\ Len(outputFiles') = Cardinality(
                        {outputFiles[i].path : i \in 1..Len(outputFiles)}
                        \cup {files[k].path : k \in 1..Len(files)})
    ]_vars

\* addOutputFiles has named one path twice with two targets, and the project
\* holds one non-stale entry of the path, owned by the second target, beside
\* the entry of the other path
C25_Witness ==
    /\ call.op = "addOutputFiles"
    /\ call.err = NoErr
    /\ Len(call.args.files) = 2
    /\ call.args.files[1].path = call.args.files[2].path
    /\ call.args.files[1].targetId # call.args.files[2].targetId
    /\ Len(outputFiles) = 2
    /\ \E i \in 1..2 : /\ outputFiles[i].path = call.args.files[2].path
                       /\ outputFiles[i].targetId = call.args.files[2].targetId
                       /\ ~outputFiles[i].stale


\* the state is the one a constructor has returned
Constructed == call.op \in {"constructor", "deserialize"}

\* C26: a constructor delivers no notification and leaves no batched event
\* behind, also when it has nulled the target of an output file; and the
\* events of a notification are events that were batched before the call or
\* raised by the call, so that the first notification after a construction
\* holds only events raised after it.
C26_SilentConstruction ==
    /\ [](Constructed => call.delivered = <<>> /\ batchedEvents = {} /\ batchCounter = 0)
    /\ [][\A n \in 1..Len(call'.delivered) :
              call'.delivered[n].events \subseteq batchedEvents \cup call'.raised]_vars

\* a project constructed from an output file whose target does not exist:
\* the target is nulled, the change has raised its event, nothing is delivered
C26_Witness ==
    /\ call.op = "constructor"
    /\ \E i \in 1..Len(outputFiles) :
           /\ call.args.outputFiles[i].typeof = "object"
           /\ call.args.outputFiles[i].targetId = "target1"
           /\ outputFiles[i].targetId = NULL
    /\ "outputFiles" \in call.raised
    /\ call.delivered = <<>>
    /\ batchedEvents = {}


\* C27: between two calls the batching depth counter is 0, also when the
\* last call has thrown.
C27_CounterReturnsToZero == batchCounter = 0


\* C29: the testbench file a target is configured with is the path of an
\* input file of the project that has the type testbench.
C29_TestbenchIsInput ==
    \A t \in Handles :
        Targets[t].testbenchFile \notin {UNDEFINED, ABSENT, ""} =>
            \E i \in 1..Len(inputFiles) :
                /\ inputFiles[i].path = Targets[t].testbenchFile
                /\ inputFiles[i].type = "testbench"

====
